---- MODULE Spec2Model ----
(***************************************************************************)
(* Content graph of demisto-sdk: the pack-dependency inference that        *)
(* create_pack_dependencies runs on the graph store                        *)
(* (content_graph/interface/neo4j/queries/dependencies.py).                *)
(*                                                                         *)
(* The graph store is the state: nodes with their marketplaces property,   *)
(* USES / IN_PACK / HAS_COMMAND / DEPENDS_ON relationships.  Every Cypher  *)
(* query of dependencies.py is one atomic action (one run_query call in a  *)
(* transaction); its reading clauses see the graph as it was before the    *)
(* query's own writes.  A marketplaces list is modelled by the set of its  *)
(* elements (the queries only test membership and filter).                 *)
(***************************************************************************)
EXTENDS Integers, Sequences, FiniteSets, TLC

VARIABLES
    marketplaces,   \* node -> its `marketplaces` property
    uses,           \* the USES relationships: [src, dst, mandatorily]
    depends_on,     \* the DEPENDS_ON relationships: [src, dst, marketplaces, mandatorily]
    pc,             \* queries completed by the current run of create_pack_dependencies
    runs,           \* completed runs of create_pack_dependencies
    prev,           \* history: marketplaces before the last update_marketplaces_property
    last,           \* history: the last query run, [op, marketplace]
    written,        \* history: the (pack_a, pack_b) pairs the last collapse query wrote
    stage,          \* "parse", "resolve" (the build of the graph) or "built"
    yml_data,       \* the yml of script s1 while ScriptParser parses it
    relationships,  \* the relationships the parser at work holds (add_dependency)
    json_data,      \* the json of the layout while LayoutParser parses it
    called,         \* the last call of a function of the registry or of a command
    console,        \* the lines the last command logged to the console
    queried,        \* history: the records the last dependency-reasons query yielded
    connection,     \* the connection to the graph store: "closed" or "open"
    cli,            \* the get-dependencies-reasons command at work: options and progress
    constraints,    \* the uniqueness constraints of the store: <<label, prop>>
    indexes,        \* the indexes of the store: <<kind, label, props>>
    db_nodes,       \* the nodes written to the store under its schema
    setup           \* history of the schema setup: runs, first schema, error

graph == <<marketplaces, uses, depends_on, pc, runs, prev, last, written>>

parser == <<yml_data, relationships>>

layout == <<json_data>>

schema == <<constraints, indexes, db_nodes, setup>>

reasons_command == <<console, queried, connection, cli>>

vars == <<graph, stage, parser, layout, called, reasons_command, schema>>

(***************************************************************************)
(* Bounds of the model.                                                    *)
(***************************************************************************)
MaxUses == 2        \* USES relationships in a built graph
MaxNarrowed == 2    \* nodes whose marketplaces are narrower than all marketplaces
MaxRuns == 2        \* runs of create_pack_dependencies on one graph

(***************************************************************************)
(* Marketplaces, in the iteration order of fix_marketplaces_properties.    *)
(***************************************************************************)
MarketplaceVersions == <<"xsoar", "marketplacev2">>

AllMarketplaces == {MarketplaceVersions[i] : i \in 1..Len(MarketplaceVersions)}

REPUTATION_COMMAND_NAMES == {"ip", "url"}

(***************************************************************************)
(* The nodes of the repository under analysis.                             *)
(***************************************************************************)
PackNodes == {"PackA", "PackB", "Base"}

ItemNodes == {"s1", "p1", "helper", "i1", "helper_alt"}

CommandNodes == {"cmd1", "ip"}

Nodes == PackNodes \cup ItemNodes \cup CommandNodes

content_type(n) ==
    CASE n \in PackNodes -> "Pack"
      [] n \in CommandNodes -> "Command"
      [] n \in {"s1", "helper", "helper_alt"} -> "Script"
      [] n = "p1" -> "Playbook"
      [] n = "i1" -> "Integration"

\* the `id` property (object id); helper_alt is the alternative of helper
object_id(n) == IF n = "helper_alt" THEN "helper" ELSE n

node_id(n) == <<content_type(n), object_id(n)>>

IN_PACK ==
    { <<"s1", "PackA">>, <<"p1", "PackA">>, <<"helper", "PackB">>, <<"i1", "PackB">>,
      <<"helper_alt", "Base">>, <<"cmd1", "PackB">>, <<"ip", "PackB">> }

HAS_COMMAND == { <<"i1", "cmd1">>, <<"i1", "ip">> }

\* the (source, target) pairs a parsed dependency of this repository can link
UsesCandidates ==
    { <<"p1", "s1">>, <<"s1", "helper">>, <<"p1", "helper">>, <<"helper_alt", "i1">>,
      <<"p1", "helper_alt">>, <<"s1", "ip">>, <<"helper", "p1">> }

(***************************************************************************)
(* dependencies.py constants.                                              *)
(***************************************************************************)
REPUTATION_COMMANDS_NODE_IDS == { <<"Command", cmd>> : cmd \in REPUTATION_COMMAND_NAMES }

IGNORED_CONTENT_ITEMS_IN_DEPENDENCY_CALC == REPUTATION_COMMANDS_NODE_IDS

IGNORED_PACKS_IN_DEPENDENCY_CALC == {"NonSupported", "Base", "ApiModules"}

(***************************************************************************)
(* Built graphs: the inputs of create_pack_dependencies.                   *)
(***************************************************************************)
UsesEdges == [src : Nodes, dst : Nodes, mandatorily : BOOLEAN]

BuiltUses ==
    { U \in SUBSET { e \in UsesEdges : <<e.src, e.dst>> \in UsesCandidates } :
        /\ Cardinality(U) <= MaxUses
        /\ \A e, f \in U : (e.src = f.src /\ e.dst = f.dst) => e = f }

\* Command nodes and the Base pack are valid for every marketplace
BuiltMarketplaces ==
    { m \in [Nodes -> (SUBSET AllMarketplaces) \ {{}}] :
        /\ \A n \in CommandNodes \cup {"Base"} : m[n] = AllMarketplaces
        /\ Cardinality({n \in Nodes : m[n] # AllMarketplaces}) <= MaxNarrowed }

\* no script is being parsed
NoYml == [dependson_must |-> <<>>, script |-> <<>>]

\* no layout is being parsed, no function has been called, an empty store
\* without schema
NoJson == [kind |-> "null", value |-> "", keys |-> <<>>, items |-> <<>>]

NoCall == [op |-> "", arg |-> <<>>, ret |-> <<>>, raised |-> ""]

NoCommand ==
    [update_graph |-> FALSE, output |-> FALSE, updated |-> FALSE, written |-> FALSE,
     acquired |-> 0, released |-> 0, error |-> ""]

NoSetup == [constraints_runs |-> 0, indexes_runs |-> 0,
            first_constraints |-> {}, first_indexes |-> {}, raised |-> ""]

Idle ==
    /\ json_data = NoJson
    /\ called = NoCall
    /\ console = <<>>
    /\ queried = <<>>
    /\ connection = "closed"
    /\ cli = NoCommand
    /\ constraints = {}
    /\ indexes = {}
    /\ db_nodes = {}
    /\ setup = NoSetup

Init ==
    /\ marketplaces \in BuiltMarketplaces
    /\ uses \in BuiltUses
    /\ depends_on = {}
    /\ pc = 0
    /\ runs = 0
    /\ prev = marketplaces
    /\ last = [op |-> "build", marketplace |-> ""]
    /\ written = {}
    /\ stage = "built"
    /\ yml_data = NoYml
    /\ relationships = {}
    /\ Idle

(***************************************************************************)
(* Cypher variable-length pattern -[r:USES*{mandatorily: true}]->: every   *)
(* path of one or more USES relationships, each with mandatorily = true,   *)
(* no relationship used twice in a path.                                   *)
(***************************************************************************)
Range(t) == { t[i] : i \in 1..Len(t) }

RECURSIVE ExtendPaths(_, _, _)
ExtendPaths(E, paths, k) ==
    IF k = 0 \/ paths = {} THEN paths
    ELSE LET longer == { Append(t, e) : t \in paths, e \in E }
             ok == { t \in longer :
                        /\ t[Len(t) - 1].dst = t[Len(t)].src
                        /\ t[Len(t)] \notin Range(SubSeq(t, 1, Len(t) - 1)) }
         IN  paths \cup ExtendPaths(E, ok, k - 1)

\* MandatoryUsesPaths without the {mandatorily: true} property filter
MandatoryUsesPaths_AnyUses(U) ==
    ExtendPaths(U, { <<e>> : e \in U }, Cardinality(U))

MandatoryUsesPaths(U) ==
    LET E == { e \in U : e.mandatorily = TRUE }
    IN  ExtendPaths(E, { <<e>> : e \in E }, Cardinality(E))

(***************************************************************************)
(* update_marketplaces_property: the rows of the query.                    *)
(*   MATCH (content_item)-[r:USES*{mandatorily: true}]->(dependency)       *)
(*   WHERE mp IN content_item.marketplaces                                 *)
(*     AND NOT mp IN dependency.marketplaces                               *)
(*   OPTIONAL MATCH (alternative_dependency{node_id: dependency.node_id})  *)
(*   WHERE mp IN alternative_dependency.marketplaces                       *)
(*   WITH ... WHERE alternative_dependency IS NULL                         *)
(***************************************************************************)
\* AlternativeDependencies without the OPTIONAL MATCH
AlternativeDependencies_None(mps, dependency, mp) == {}

AlternativeDependencies(mps, dependency, mp) ==
    { alt \in Nodes : node_id(alt) = node_id(dependency) /\ mp \in mps[alt] }

ExcludedRows(mps, U, mp) ==
    { row \in { <<t[1].src, t[Len(t)].dst>> : t \in MandatoryUsesPaths(U) } :
        /\ mp \in mps[row[1]]
        /\ mp \notin mps[row[2]]
        /\ AlternativeDependencies(mps, row[2], mp) = {} }

\* MarketplacesWithout with the CASE WHEN test inverted: the excluded item
\* keeps the marketplace and loses the others
MarketplacesWithout_KeepsOnly(mps, U, mp) ==
    LET excluded == { row[1] : row \in ExcludedRows(mps, U, mp) }
    IN  [n \in Nodes |-> IF n \in excluded THEN mps[n] \cap {mp} ELSE mps[n]]

\* SET content_item.marketplaces = REDUCE(... mp <> marketplace ...)
MarketplacesWithout(mps, U, mp) ==
    LET excluded == { row[1] : row \in ExcludedRows(mps, U, mp) }
    IN  [n \in Nodes |-> IF n \in excluded THEN mps[n] \ {mp} ELSE mps[n]]

(***************************************************************************)
(* create_pack_dependencies: fix_marketplaces_properties runs one          *)
(* update_marketplaces_property query per marketplace, in order, then      *)
(* create_depends_on_relationships runs the collapse query.                *)
(***************************************************************************)
NumMarketplaces == Len(MarketplaceVersions)

\* pc counts the queries the current run of create_pack_dependencies has
\* completed; a run starts on a built graph
update_marketplaces_property ==
    /\ stage = "built"
    /\ pc < NumMarketplaces
    /\ pc = 0 => runs < MaxRuns
    /\ LET mp == MarketplaceVersions[pc + 1]
       IN  /\ marketplaces' = MarketplacesWithout(marketplaces, uses, mp)
           /\ last' = [op |-> "update_marketplaces_property", marketplace |-> mp]
    /\ prev' = marketplaces
    /\ pc' = pc + 1
    /\ UNCHANGED <<uses, depends_on, runs, written, stage, parser, layout, reasons_command, called, schema>>

(***************************************************************************)
(* create_depends_on_relationships: the rows of the collapse query.        *)
(*   MATCH (pack_a)<-[:IN_PACK]-(a)-[r:USES]->(b)-[:IN_PACK]->(pack_b)     *)
(*   WHERE ANY(marketplace IN pack_a.marketplaces                          *)
(*             WHERE marketplace IN pack_b.marketplaces)                   *)
(*     AND pack_a.id <> pack_b.id                                          *)
(*     AND NOT pack_a.id IN IGNORED_PACKS_IN_DEPENDENCY_CALC               *)
(*     AND NOT pack_b.id IN IGNORED_PACKS_IN_DEPENDENCY_CALC               *)
(*     AND NOT b.node_id IN IGNORED_CONTENT_ITEMS_IN_DEPENDENCY_CALC       *)
(* A row is <<pack_a, a, r, b, pack_b>>.                                   *)
(***************************************************************************)
MatchedRows(U) ==
    UNION { { <<pack_a, r.src, r, r.dst, pack_b>> :
                pack_a \in { n \in Nodes : <<r.src, n>> \in IN_PACK },
                pack_b \in { n \in Nodes : <<r.dst, n>> \in IN_PACK } } : r \in U }

\* DependsOnRows without `pack_a.id <> pack_b.id`
DependsOnRows_NoIdCheck(mps, U) ==
    { row \in MatchedRows(U) :
        /\ \E marketplace \in mps[row[1]] : marketplace \in mps[row[5]]
        /\ object_id(row[1]) \notin IGNORED_PACKS_IN_DEPENDENCY_CALC
        /\ object_id(row[5]) \notin IGNORED_PACKS_IN_DEPENDENCY_CALC
        /\ node_id(row[4]) \notin IGNORED_CONTENT_ITEMS_IN_DEPENDENCY_CALC }

\* DependsOnRows without the ANY(marketplace ...) test
DependsOnRows_NoMarketplaceCheck(mps, U) ==
    { row \in MatchedRows(U) :
        /\ object_id(row[1]) # object_id(row[5])
        /\ object_id(row[1]) \notin IGNORED_PACKS_IN_DEPENDENCY_CALC
        /\ object_id(row[5]) \notin IGNORED_PACKS_IN_DEPENDENCY_CALC
        /\ node_id(row[4]) \notin IGNORED_CONTENT_ITEMS_IN_DEPENDENCY_CALC }

\* DependsOnRows matching -[r:USES{mandatorily: true}]-> only
DependsOnRows_MandatoryOnly(mps, U) ==
    { row \in MatchedRows(U) :
        /\ row[3].mandatorily = TRUE
        /\ \E marketplace \in mps[row[1]] : marketplace \in mps[row[5]]
        /\ object_id(row[1]) # object_id(row[5])
        /\ object_id(row[1]) \notin IGNORED_PACKS_IN_DEPENDENCY_CALC
        /\ object_id(row[5]) \notin IGNORED_PACKS_IN_DEPENDENCY_CALC
        /\ node_id(row[4]) \notin IGNORED_CONTENT_ITEMS_IN_DEPENDENCY_CALC }

\* DependsOnRows without the test of b.node_id
DependsOnRows_NoIgnoredItems(mps, U) ==
    { row \in MatchedRows(U) :
        /\ \E marketplace \in mps[row[1]] : marketplace \in mps[row[5]]
        /\ object_id(row[1]) # object_id(row[5])
        /\ object_id(row[1]) \notin IGNORED_PACKS_IN_DEPENDENCY_CALC
        /\ object_id(row[5]) \notin IGNORED_PACKS_IN_DEPENDENCY_CALC }

DependsOnRows(mps, U) ==
    { row \in MatchedRows(U) :
        /\ \E marketplace \in mps[row[1]] : marketplace \in mps[row[5]]
        /\ object_id(row[1]) # object_id(row[5])
        /\ object_id(row[1]) \notin IGNORED_PACKS_IN_DEPENDENCY_CALC
        /\ object_id(row[5]) \notin IGNORED_PACKS_IN_DEPENDENCY_CALC
        /\ node_id(row[4]) \notin IGNORED_CONTENT_ITEMS_IN_DEPENDENCY_CALC }

\* MergedEndpoints merging the edge between the items a and b
MergedEndpoints_Items(row) == <<row[2], row[4]>>

\* MERGE (pack_a)-[dep:DEPENDS_ON]->(pack_b): the endpoints of the merged edge
MergedEndpoints(row) == <<row[1], row[5]>>

\* common_marketplaces without the CASE WHEN filter
common_marketplaces_OfPackA(mps, pack_a, pack_b) == mps[pack_a]

\* REDUCE(marketplaces = [], mp IN pack_a.marketplaces |
\*        CASE WHEN mp IN pack_b.marketplaces THEN marketplaces + mp ...)
common_marketplaces(mps, pack_a, pack_b) ==
    { mp \in mps[pack_a] : mp \in mps[pack_b] }

\* RowMandatorily with a constant instead of r.mandatorily
RowMandatorily_AlwaysTrue(row) == TRUE

\* SET dep.mandatorily = r.mandatorily
RowMandatorily(row) == row[3].mandatorily

\* UnmergedEdges with CREATE in the place of MERGE: the edge of a pair is
\* created beside the one the store holds
UnmergedEdges_Create(existing, pairs) == existing

\* MERGE (pack_a)-[dep:DEPENDS_ON]->(pack_b): the edges of the store that no
\* row binds to dep
UnmergedEdges(existing, pairs) ==
    { dep \in existing : <<dep.src, dep.dst>> \notin pairs }

(***************************************************************************)
(* The collapse query.  MERGE finds or creates the one DEPENDS_ON edge of  *)
(* a (pack_a, pack_b) pair; SET runs once per row, in the store's row      *)
(* order, so the edge keeps the mandatorily of whichever row of its pair   *)
(* came last: any one of them.                                             *)
(***************************************************************************)
create_depends_on_relationships ==
    /\ pc = NumMarketplaces
    /\ LET rows == DependsOnRows(marketplaces, uses)
           pairs == { MergedEndpoints(row) : row \in rows }
           rowsOf(p) == { row \in rows : MergedEndpoints(row) = p }
       IN  \E lastRow \in [pairs -> rows] :
             /\ \A p \in pairs : lastRow[p] \in rowsOf(p)
             /\ depends_on' =
                  UnmergedEdges(depends_on, pairs)
                  \cup { [src |-> p[1], dst |-> p[2],
                          marketplaces |->
                            common_marketplaces(marketplaces, lastRow[p][1], lastRow[p][5]),
                          mandatorily |-> RowMandatorily(lastRow[p])] : p \in pairs }
             /\ written' = pairs
    /\ pc' = 0
    /\ runs' = runs + 1
    /\ last' = [op |-> "create_depends_on_relationships", marketplace |-> ""]
    /\ UNCHANGED <<marketplaces, uses, prev, stage, parser, layout, reasons_command, called, schema>>

(***************************************************************************)
(* ScriptParser (content_graph/parsers/script.py).  A string is the        *)
(* sequence of its characters.  The script code is a sequence of lines, a  *)
(* line a sequence of calls [function, quote, name]: the called function,  *)
(* the quote character that opens its first argument ("" when the argument *)
(* is no string literal) and the characters up to the closing quote.       *)
(***************************************************************************)
MaxLines == 1           \* lines of code of the script
MaxCallsPerLine == 2    \* calls on one line
MaxDependsOn == 1       \* entries of dependson.must

Text(id) ==
    CASE id = "cmd1" -> <<"c", "m", "d", "1">>
      [] id = "ip" -> <<"i", "p">>
      [] id = "helper" -> <<"h", "e", "l", "p", "e", "r">>
      [] id = "i1" -> <<"i", "1">>
      [] id = "s1" -> <<"s", "1">>
      [] id = "p1" -> <<"p", "1">>
      [] OTHER -> <<id>>

Letters == {"c", "d", "e", "h", "i", "l", "m", "p", "r", "s"}

\* the character class [a-zA-Z-_] of EXECUTE_CMD_PATTERN
InCommandNameClass(ch) == ch \in Letters \cup {"-", "_"}

\* execute_?command under re.IGNORECASE
MatchesExecuteCommand(function) ==
    function \in {"execute_command", "executeCommand", "EXECUTE_COMMAND"}

\* ['\"]([a-zA-Z-_]+)['\"] right after the opening parenthesis
CallMatches(call) ==
    /\ MatchesExecuteCommand(call.function)
    /\ call.quote \in {"'", "\""}
    /\ call.name # <<>>
    /\ \A i \in 1..Len(call.name) : InCommandNameClass(call.name[i])

\* findall over one line: the first call that matches is captured and the
\* pattern's trailing .* swallows the rest of the line
RECURSIVE FirstMatchOfLine(_)
FirstMatchOfLine(line) ==
    IF line = <<>> THEN {}
    ELSE IF CallMatches(Head(line)) THEN {Head(line).name}
    ELSE FirstMatchOfLine(Tail(line))

get_command_executions(yml) ==
    UNION { FirstMatchOfLine(yml.script[i]) : i \in 1..Len(yml.script) }

\* cmd.split('|')[-1]: the characters after the last '|'
RECURSIVE AfterLastBar(_)
AfterLastBar(cmd) ==
    IF \A i \in 1..Len(cmd) : cmd[i] # "|" THEN cmd
    ELSE LET bar == CHOOSE i \in 1..Len(cmd) : cmd[i] = "|"
         IN  AfterLastBar(SubSeq(cmd, bar + 1, Len(cmd)))

\* the variant that keeps the qualifier
get_depends_on_Unstripped(yml) ==
    { yml.dependson_must[i] : i \in 1..Len(yml.dependson_must) }

get_depends_on(yml) ==
    { AfterLastBar(yml.dependson_must[i]) : i \in 1..Len(yml.dependson_must) }

\* add_dependency(dependency_id, dependency_type, is_mandatory) of the parser
\* of `source`: a USES relationship to the node of that type and id, or a
\* USES_COMMAND_OR_SCRIPT relationship when no type is given (NoType)
NoType == ""

add_dependency_of(source, dependency_id, dependency_type, is_mandatory) ==
    [source |-> source,
     relationship |-> IF dependency_type = NoType
                      THEN "USES_COMMAND_OR_SCRIPT" ELSE "USES",
     target_type |-> dependency_type,
     target |-> dependency_id,
     mandatorily |-> is_mandatory]

\* a call that gives no is_mandatory: the parameter's default
add_dependency_default(source, dependency_id, dependency_type) ==
    add_dependency_of(source, dependency_id, dependency_type, TRUE)

\* add_dependency(cmd) of the parser of s1
add_dependency(cmd) == add_dependency_default("s1", cmd, NoType)

ScriptParser_connect_to_dependencies ==
    /\ stage = "parse"
    /\ relationships' =
         { add_dependency(cmd) : cmd \in get_depends_on(yml_data) }
         \cup { add_dependency(cmd) : cmd \in get_command_executions(yml_data) }
    /\ stage' = "resolve"
    /\ UNCHANGED <<graph, yml_data, layout, reasons_command, called, schema>>

(***************************************************************************)
(* The graph builder writes the parsed relationships to the store: a       *)
(* USES_COMMAND_OR_SCRIPT relationship becomes a USES edge to the Command  *)
(* or Script node of that object id, and stays ambiguous when the id does  *)
(* not name exactly one such node.                                         *)
(***************************************************************************)
CommandOrScriptNodes(target) ==
    { n \in Nodes : content_type(n) \in {"Command", "Script"} /\ Text(object_id(n)) = target }

create_relationships ==
    /\ stage = "resolve"
    /\ LET resolved == { rel \in relationships :
                           Cardinality(CommandOrScriptNodes(rel.target)) = 1 }
       IN  /\ uses' = uses \cup
                 { [src |-> rel.source,
                    dst |-> CHOOSE n \in CommandOrScriptNodes(rel.target) : TRUE,
                    mandatorily |-> rel.mandatorily] : rel \in resolved }
           /\ relationships' = relationships \ resolved
    /\ stage' = "built"
    /\ UNCHANGED <<marketplaces, depends_on, pc, runs, prev, last, written, yml_data,
                   layout, reasons_command, called, schema>>

(***************************************************************************)
(* The repository of the build: script s1 of PackA still to be parsed, the *)
(* other items' relationships already in the store.                        *)
(***************************************************************************)
Calls ==
    [function : {"execute_command", "executeCommand", "return_results"},
     quote : {"\"", ""},
     name : {Text("cmd1"), Text("ip")}]

Lines == UNION { [1..n -> Calls] : n \in 1..MaxCallsPerLine }

DependsOnEntries ==
    { Text("cmd1"), Text("i1") \o <<"|">> \o Text("cmd1"), Text("helper") }

ScriptYmls ==
    [dependson_must : UNION { [1..n -> DependsOnEntries] : n \in 0..MaxDependsOn },
     script : UNION { [1..n -> Lines] : n \in 0..MaxLines }]

InitBuild ==
    /\ marketplaces \in { m \in BuiltMarketplaces :
            \A n \in Nodes \ {"PackA", "PackB", "s1", "i1"} : m[n] = AllMarketplaces }
    /\ uses \in { U \in BuiltUses : \A r \in U : r.src = "p1" /\ r.dst = "helper" }
    /\ depends_on = {}
    /\ pc = 0
    /\ runs = 0
    /\ prev = marketplaces
    /\ last = [op |-> "build", marketplace |-> ""]
    /\ written = {}
    /\ stage = "parse"
    /\ yml_data \in ScriptYmls
    /\ relationships = {}
    /\ Idle

Next ==
    \/ update_marketplaces_property
    \/ create_depends_on_relationships

Spec == Init /\ [][Next]_vars

NextBuild ==
    \/ ScriptParser_connect_to_dependencies
    \/ create_relationships
    \/ Next

SpecBuild == InitBuild /\ [][NextBuild]_vars

(***************************************************************************)
(* Vocabulary of the properties below, stated on the graph itself.         *)
(***************************************************************************)
Collapsed == last.op = "create_depends_on_relationships"

Repaired == last.op = "update_marketplaces_property"

PackOf(n) == { p \in Nodes : <<n, p>> \in IN_PACK }

\* the DEPENDS_ON edges the last collapse run created or merged
WrittenEdges == { dep \in depends_on : <<dep.src, dep.dst>> \in written }

\* the USES edges from an item of pack_a to an item of pack_b
UsesBetween(pack_a, pack_b) ==
    { r \in uses : pack_a \in PackOf(r.src) /\ pack_b \in PackOf(r.dst) }

IsReputationCommand(n) ==
    content_type(n) = "Command" /\ object_id(n) \in REPUTATION_COMMAND_NAMES

IsIgnoredPack(p) == object_id(p) \in {"NonSupported", "Base", "ApiModules"}

SharedMarketplaces(pack_a, pack_b) == marketplaces[pack_a] \cap marketplaces[pack_b]

\* the pack pairs between which Phase 2 may draw an edge
PairQualifies(pack_a, pack_b) ==
    /\ pack_a # pack_b
    /\ ~IsIgnoredPack(pack_a)
    /\ ~IsIgnoredPack(pack_b)
    /\ SharedMarketplaces(pack_a, pack_b) # {}

\* the USES edges that justify a DEPENDS_ON edge pack_a -> pack_b
QualifyingUses(pack_a, pack_b) ==
    IF PairQualifies(pack_a, pack_b)
    THEN { r \in UsesBetween(pack_a, pack_b) : ~IsReputationCommand(r.dst) }
    ELSE {}

(***************************************************************************)
(* C1: after the Phase 2 collapse no DEPENDS_ON edge links a pack to       *)
(* itself, and none has a source or target pack of the ignore-list         *)
(* NonSupported, Base, ApiModules.                                         *)
(***************************************************************************)
C1_NoSelfNoIgnoredPack ==
    \A dep \in depends_on :
        /\ dep.src # dep.dst
        /\ object_id(dep.src) # object_id(dep.dst)
        /\ ~IsIgnoredPack(dep.src)
        /\ ~IsIgnoredPack(dep.dst)

\* a collapse ran on a graph with a USES edge inside one pack and a USES
\* edge that touches an ignored pack
C1_Witness ==
    /\ Collapsed
    /\ \E r \in uses : PackOf(r.src) \cap PackOf(r.dst) # {}
    /\ \E r \in uses : \E p \in PackOf(r.src) \cup PackOf(r.dst) : IsIgnoredPack(p)

(***************************************************************************)
(* C2: the collapse writes no DEPENDS_ON edge between packs whose          *)
(* marketplace sets are disjoint; every edge it writes has a non-empty     *)
(* marketplaces attribute.                                                 *)
(***************************************************************************)
C2_SharedMarketplace ==
    Collapsed =>
        /\ \A dep \in WrittenEdges :
             /\ dep.marketplaces # {}
             /\ SharedMarketplaces(dep.src, dep.dst) # {}
        /\ \A pack_a, pack_b \in PackNodes :
             SharedMarketplaces(pack_a, pack_b) = {}
                => ~\E dep \in depends_on : dep.src = pack_a /\ dep.dst = pack_b

\* a collapse ran over a USES edge between two distinct, non-ignored packs
\* that share no marketplace
C2_Witness ==
    /\ Collapsed
    /\ \E pack_a, pack_b \in PackNodes :
         /\ pack_a # pack_b
         /\ ~IsIgnoredPack(pack_a) /\ ~IsIgnoredPack(pack_b)
         /\ marketplaces[pack_a] # {} /\ marketplaces[pack_b] # {}
         /\ SharedMarketplaces(pack_a, pack_b) = {}
         /\ \E r \in UsesBetween(pack_a, pack_b) : ~IsReputationCommand(r.dst)

(***************************************************************************)
(* C3 as claimed: when every USES edge from an item of Pa to an item of Pb *)
(* is optional, the collapse writes no DEPENDS_ON edge Pa -> Pb.           *)
(***************************************************************************)
C3_OnlyMandatoryCollapses ==
    Collapsed =>
        \A pack_a, pack_b \in PackNodes :
            (\A r \in UsesBetween(pack_a, pack_b) : r.mandatorily = FALSE)
                => <<pack_a, pack_b>> \notin written

(***************************************************************************)
(* C3 amended: the collapse draws the edge Pa -> Pb from every qualifying  *)
(* USES edge, mandatory or optional; when all the qualifying USES edges    *)
(* between the two packs are optional the edge is written with             *)
(* mandatorily = false, and with no qualifying USES edge none is written.  *)
(***************************************************************************)
C3_OptionalCollapsesToOptional ==
    Collapsed =>
        \A pack_a, pack_b \in PackNodes :
            LET q == QualifyingUses(pack_a, pack_b)
            IN  /\ (q = {}) <=> (<<pack_a, pack_b>> \notin written)
                /\ (q # {} /\ \A r \in q : r.mandatorily = FALSE)
                      => \E dep \in WrittenEdges :
                            /\ dep.src = pack_a /\ dep.dst = pack_b
                            /\ dep.mandatorily = FALSE

\* a collapse wrote an edge between two packs linked by optional USES only
C3_Witness ==
    /\ Collapsed
    /\ \E dep \in WrittenEdges :
         /\ UsesBetween(dep.src, dep.dst) # {}
         /\ \A r \in UsesBetween(dep.src, dep.dst) : r.mandatorily = FALSE
         /\ dep.mandatorily = FALSE

(***************************************************************************)
(* C7: every DEPENDS_ON edge Pa -> Pb a collapse run writes carries the    *)
(* intersection of Pa's and Pb's marketplace sets as they stand at that    *)
(* run.                                                                    *)
(***************************************************************************)
C7_MarketplacesIsIntersection ==
    Collapsed =>
        \A dep \in WrittenEdges :
            dep.marketplaces = marketplaces[dep.src] \cap marketplaces[dep.dst]

\* a collapse wrote an edge whose source pack has a marketplace the target lacks
C7_Witness ==
    /\ Collapsed
    /\ \E dep \in WrittenEdges :
         marketplaces[dep.src] \ marketplaces[dep.dst] # {}

(***************************************************************************)
(* C8: the mandatorily of every DEPENDS_ON edge Pa -> Pb a collapse run    *)
(* writes is the mandatorily of one of the qualifying USES edges between   *)
(* items of Pa and Pb (last write wins, no OR is taken).                   *)
(***************************************************************************)
C8_MandatorilyOfSomeUses ==
    Collapsed =>
        \A dep \in WrittenEdges :
            \E r \in QualifyingUses(dep.src, dep.dst) :
                dep.mandatorily = r.mandatorily

\* a collapse wrote an optional edge although a mandatory qualifying USES
\* edge links the two packs
C8_Witness ==
    /\ Collapsed
    /\ \E dep \in WrittenEdges :
         /\ dep.mandatorily = FALSE
         /\ \E r \in QualifyingUses(dep.src, dep.dst) : r.mandatorily = TRUE

C10_DependsOnBetweenPacks ==
    \A dep \in depends_on :
        content_type(dep.src) = "Pack" /\ content_type(dep.dst) = "Pack"

\* a collapse wrote an edge for a USES edge between two content items
C10_Witness ==
    /\ Collapsed
    /\ \E dep \in WrittenEdges :
         \E r \in UsesBetween(dep.src, dep.dst) :
            content_type(r.src) # "Pack" /\ content_type(r.dst) # "Pack"

(***************************************************************************)
(* Reachability along mandatory USES edges, by closure of the successor    *)
(* relation (independent of how the query enumerates its paths).           *)
(***************************************************************************)
MandatorySuccessors(S) ==
    { r.dst : r \in { e \in uses : e.mandatorily = TRUE /\ e.src \in S } }

RECURSIVE ReachClosure(_, _)
ReachClosure(S, k) ==
    IF k = 0 THEN S
    ELSE ReachClosure(S \cup MandatorySuccessors(S), k - 1)

\* the nodes a mandatory USES path of length >= 1 leads to from n
MandatoryDependencies(n) ==
    ReachClosure(MandatorySuccessors({n}), Cardinality(uses))

\* d is unavailable in marketplace mp under the marketplace sets mps
Unavailable(mps, d, mp) ==
    \A alt \in Nodes : node_id(alt) = node_id(d) => mp \notin mps[alt]

\* n is tagged mp and has a hard dependency that is unavailable in mp
MustLose(mps, n, mp) ==
    /\ mp \in mps[n]
    /\ \E d \in MandatoryDependencies(n) : Unavailable(mps, d, mp)

(***************************************************************************)
(* C4 as claimed: marketplace repair reaches its fixed point in one run:   *)
(* in a second run of create_pack_dependencies on the unchanged graph no   *)
(* update_marketplaces_property removes a marketplace from any node.       *)
(***************************************************************************)
C4_SecondRunRemovesNothing ==
    (runs >= 1 /\ Repaired) => marketplaces = prev

(***************************************************************************)
(* C5: update_marketplaces_property(M) removes M from exactly the nodes    *)
(* that before the call are tagged M and have an all-mandatory USES path   *)
(* of length >= 1 to a dependency not tagged M none of whose alternatives  *)
(* (nodes of the same node_id) is tagged M; every other node keeps its     *)
(* marketplaces.                                                           *)
(***************************************************************************)
C5_RemovesExactlyTheBroken ==
    Repaired =>
        \A n \in Nodes :
            marketplaces[n] =
                IF MustLose(prev, n, last.marketplace)
                THEN prev[n] \ {last.marketplace}
                ELSE prev[n]

\* one update removed M from an item over a path of two mandatory edges and
\* left M on the item in between, whose own marketplaces lack M
C5_Witness ==
    /\ Repaired
    /\ \E n \in Nodes, r \in uses :
         /\ r.src = n /\ r.mandatorily = TRUE
         /\ last.marketplace \in prev[n]
         /\ last.marketplace \notin marketplaces[n]
         /\ ~Unavailable(prev, r.dst, last.marketplace)
         /\ \E d \in MandatoryDependencies(r.dst) :
              Unavailable(prev, d, last.marketplace)

\* one update kept M on an item whose only unavailable dependency lies
\* behind an optional USES edge
C5_WitnessOptional ==
    /\ Repaired
    /\ \E r \in uses :
         /\ r.mandatorily = FALSE
         /\ last.marketplace \in marketplaces[r.src]
         /\ Unavailable(prev, r.dst, last.marketplace)

\* one update kept M on an item whose dependency lacks M and has an
\* alternative tagged M
C5_WitnessAlternative ==
    /\ Repaired
    /\ \E r \in uses :
         /\ r.mandatorily = TRUE
         /\ last.marketplace \in marketplaces[r.src]
         /\ last.marketplace \notin prev[r.dst]
         /\ ~Unavailable(prev, r.dst, last.marketplace)

(***************************************************************************)
(* C6: script s1 of PackA calls execute_command("cmd1") and integration i1 *)
(* of PackB exposes command cmd1 (the packs share a marketplace and no     *)
(* optional USES edge links them): after the build and                     *)
(* create_pack_dependencies, s1 USES i1's Command node cmd1 mandatorily    *)
(* and DEPENDS_ON PackA -> PackB exists with mandatorily = true.           *)
(***************************************************************************)
\* a line of s1's code starts with the call execute_command("cmd1")
ScriptCallsCmd1 ==
    \E i \in 1..Len(yml_data.script) :
        yml_data.script[i][1] =
            [function |-> "execute_command", quote |-> "\"", name |-> Text("cmd1")]

C6_ExecuteCommandYieldsDependsOn ==
    ( /\ Collapsed
      /\ ScriptCallsCmd1
      /\ <<"i1", "cmd1">> \in HAS_COMMAND
      /\ SharedMarketplaces("PackA", "PackB") # {}
      /\ \A r \in UsesBetween("PackA", "PackB") : r.mandatorily = TRUE )
    => /\ [src |-> "s1", dst |-> "cmd1", mandatorily |-> TRUE] \in uses
       /\ \E dep \in depends_on :
            dep.src = "PackA" /\ dep.dst = "PackB" /\ dep.mandatorily = TRUE

(***************************************************************************)
(* PlaybookParser (content_graph/parsers/playbook.py).  A string is the    *)
(* sequence of its tokens ("|" is a token of its own), the empty string    *)
(* <<>>; `x in command` is the presence of token x.  yml_data holds the    *)
(* playbook's tasks (task id -> task) and, apart from them, the tasks'     *)
(* nexttasks as edges [from, to, branch].                                  *)
(***************************************************************************)
TaskIds == {"0", "1", "2"}

Contains(command, token) == \E i \in 1..Len(command) : command[i] = token

\* command.split('|')
RECURSIVE Split(_)
Split(command) ==
    IF ~Contains(command, "|") THEN <<command>>
    ELSE LET bar == CHOOSE i \in 1..Len(command) :
                        /\ command[i] = "|"
                        /\ \A j \in 1..(i - 1) : command[j] # "|"
         IN  <<SubSeq(command, 1, bar - 1)>>
                 \o Split(SubSeq(command, bar + 1, Len(command)))

Bars == <<"|", "|", "|">>

LIST_COMMANDS ==
    { <<"Builtin">> \o Bars \o <<"setList">>, <<"Builtin">> \o Bars \o <<"getList">> }

BUILT_IN_FIELDS == { <<"name">>, <<"details">> }

\* build_tasks_graph(yml_data): the tasks reachable from the start task,
\* each with its `mandatory` attribute: reachable without taking the
\* alternate branch of a condition
RECURSIVE ReachableTasks(_, _, _)
ReachableTasks(edges, reached, k) ==
    IF k = 0 THEN reached
    ELSE ReachableTasks(edges,
                        reached \cup { e.to : e \in { f \in edges : f.from \in reached } },
                        k - 1)

build_tasks_graph(yml) ==
    LET all == ReachableTasks(yml.nexttasks, {yml.starttaskid}, Cardinality(TaskIds))
        main == ReachableTasks({ e \in yml.nexttasks : e.branch = "#none#" },
                               {yml.starttaskid}, Cardinality(TaskIds))
    IN  [task_id \in all |-> task_id \in main]

\* graph.nodes[task_id]['mandatory'], False on KeyError
is_mandatory_dependency(tasks_graph, task_id) ==
    IF task_id \in DOMAIN tasks_graph THEN tasks_graph[task_id] ELSE FALSE

\* get_fields_by_script_argument(task)
get_fields_by_script_argument(task) == task.argument_fields

handle_playbook_task(task, is_mandatory) ==
    IF task.playbookName # <<>>
    THEN { add_dependency_of("p1", task.playbookName, "Playbook", is_mandatory) }
    ELSE {}

handle_script_task(task, is_mandatory) ==
    IF task.scriptName # <<>>
    THEN { add_dependency_of("p1", task.scriptName, "Script", is_mandatory) }
    ELSE {}

\* the variant that takes a Builtin command for a script
handle_command_task_BuiltinAsScript(task, is_mandatory) ==
    LET command == task.script
    IN  IF command = <<>> THEN {}
        ELSE IF Contains(command, "setIncident")
        THEN { add_dependency_of("p1", incident_field, "IncidentField", is_mandatory) :
                 incident_field \in get_fields_by_script_argument(task) }
        ELSE IF Contains(command, "setIndicator")
        THEN { add_dependency_of("p1", incident_field, "IndicatorField", is_mandatory) :
                 incident_field \in get_fields_by_script_argument(task) }
        ELSE IF command \in LIST_COMMANDS
        THEN IF task.listName # <<>>
             THEN { add_dependency_of("p1", task.listName, "List", is_mandatory) }
             ELSE {}
        ELSE IF ~Contains(command, "Builtin")
        THEN IF ~Contains(command, "|")
             THEN { add_dependency_of("p1", command, "Command", is_mandatory) }
             ELSE LET parts == Split(command)
                      integration == Head(parts)
                  IN  IF integration # <<>>
                      THEN { add_dependency_of("p1", integration, "Integration", is_mandatory) }
                      ELSE { add_dependency_of("p1", parts[Len(parts)], "Command", is_mandatory) }
        ELSE LET parts == Split(command)
             IN  { add_dependency_of("p1", parts[Len(parts)], "Script", is_mandatory) }

handle_command_task(task, is_mandatory) ==
    LET command == task.script
    IN  IF command = <<>> THEN {}
        ELSE IF Contains(command, "setIncident")
        THEN { add_dependency_of("p1", incident_field, "IncidentField", is_mandatory) :
                 incident_field \in get_fields_by_script_argument(task) }
        ELSE IF Contains(command, "setIndicator")
        THEN { add_dependency_of("p1", incident_field, "IndicatorField", is_mandatory) :
                 incident_field \in get_fields_by_script_argument(task) }
        ELSE IF command \in LIST_COMMANDS
        THEN IF task.listName # <<>>
             THEN { add_dependency_of("p1", task.listName, "List", is_mandatory) }
             ELSE {}
        ELSE IF ~Contains(command, "Builtin")
        THEN IF ~Contains(command, "|")
             THEN { add_dependency_of("p1", command, "Command", is_mandatory) }
             ELSE LET parts == Split(command)
                      integration == Head(parts)
                  IN  IF integration # <<>>
                      THEN { add_dependency_of("p1", integration, "Integration", is_mandatory) }
                      ELSE { add_dependency_of("p1", parts[Len(parts)], "Command", is_mandatory) }
        ELSE {}

\* a complex input is [filters, transformers]; a filter is the sequence of
\* its entries, an entry or a transformer the record holding its operator
add_complex_input_filters_and_transformers(complex_input) ==
    { add_dependency_default("p1", complex_input.filters[i][1].operator, "Script") :
        i \in { j \in 1..Len(complex_input.filters) : complex_input.filters[j] # <<>> } }
    \cup
    { add_dependency_default("p1", complex_input.transformers[i].operator, "Script") :
        i \in 1..Len(complex_input.transformers) }

\* task.conditions holds the complex values of the operands of the task's
\* conditions, task.scriptarguments those of its script arguments
handle_task_filter_and_transformer_scripts(task) ==
    IF task.type = "condition"
    THEN UNION { add_complex_input_filters_and_transformers(complex_input) :
                   complex_input \in task.conditions }
    ELSE UNION { add_complex_input_filters_and_transformers(complex_input) :
                   complex_input \in task.scriptarguments }

handle_field_mapping(task, is_mandatory) ==
    { add_dependency_of("p1", incident_field, "IncidentField", is_mandatory) :
        incident_field \in task.fieldMapping \ BUILT_IN_FIELDS }

\* one iteration of the loop of connect_to_dependencies
TaskDependencies(yml, tasks_graph, task_id) ==
    LET task == yml.tasks[task_id]
        is_mandatory == is_mandatory_dependency(tasks_graph, task_id)
    IN  handle_task_filter_and_transformer_scripts(task)
        \cup handle_playbook_task(task, is_mandatory)
        \cup handle_script_task(task, is_mandatory)
        \cup handle_command_task(task, is_mandatory)
        \cup handle_field_mapping(task, is_mandatory)

PlaybookParser_connect_to_dependencies ==
    /\ stage = "parse_playbook"
    /\ relationships' =
         UNION { TaskDependencies(yml_data, build_tasks_graph(yml_data), task_id) :
                   task_id \in DOMAIN yml_data.tasks }
    /\ stage' = "playbook_parsed"
    /\ UNCHANGED <<graph, yml_data, layout, reasons_command, called, schema>>

(***************************************************************************)
(* The playbooks of the analysis: p1 with start task "0", a task "1" of    *)
(* any content and a task "2", linked by any of the candidate transitions; *)
(* the branches are "#none#", of an unconditional transition, and "no",    *)
(* the alternate branch of a condition.                                    *)
(***************************************************************************)
\* the store before any item is written to it, no run of the inference
NoGraph ==
    /\ marketplaces = [n \in Nodes |-> AllMarketplaces]
    /\ uses = {}
    /\ depends_on = {}
    /\ pc = 0
    /\ runs = 0
    /\ prev = marketplaces
    /\ last = [op |-> "build", marketplace |-> ""]
    /\ written = {}

PlaybookCommands ==
    { <<>>,
      <<"cmd">>,
      <<"integ">> \o Bars \o <<"cmd">>,
      Bars \o <<"cmd">>,
      <<"integ", "|", "cmd">>,
      <<"Builtin">> \o Bars \o <<"setIncident">>,
      <<"setIndicator">>,
      <<"Builtin">> \o Bars \o <<"setList">>,
      <<"Builtin">> \o Bars \o <<"print">>,
      <<"My", "Builtin">> \o Bars \o <<"cmd">> }

FilterOnly ==
    [filters |-> << <<[operator |-> <<"flt">>]>> >>, transformers |-> <<>>]

FilterAndTransformer ==
    [filters |-> << <<>>, <<[operator |-> <<"flt">>]>> >>,
     transformers |-> <<[operator |-> <<"trn">>]>>]

PlaybookTasks ==
    [type : {"regular", "condition"},
     playbookName : {<<>>, <<"sub">>},
     scriptName : {<<>>, <<"scr">>},
     script : PlaybookCommands,
     listName : {<<>>, <<"lst">>},
     argument_fields : {{<<"fld">>}},
     conditions : {{}, {FilterAndTransformer}},
     scriptarguments : {{}, {FilterOnly}},
     fieldMapping : {{}, {<<"custom">>, <<"name">>}}]

EmptyTask ==
    [type |-> "regular", playbookName |-> <<>>, scriptName |-> <<>>,
     script |-> <<>>, listName |-> <<>>, argument_fields |-> {<<"fld">>},
     conditions |-> {}, scriptarguments |-> {}, fieldMapping |-> {}]

LastTasks ==
    { EmptyTask,
      [EmptyTask EXCEPT !.playbookName = <<"sub">>,
                        !.scriptarguments = {FilterOnly}],
      [EmptyTask EXCEPT !.script = <<"integ">> \o Bars \o <<"cmd">>] }

NextTasksCandidates ==
    { [from |-> "0", to |-> "1", branch |-> "#none#"],
      [from |-> "0", to |-> "1", branch |-> "no"],
      [from |-> "0", to |-> "2", branch |-> "#none#"],
      [from |-> "1", to |-> "2", branch |-> "#none#"],
      [from |-> "1", to |-> "2", branch |-> "no"] }

PlaybookYmls ==
    { [starttaskid |-> "0",
       tasks |-> [task_id \in TaskIds |->
                    IF task_id = "0" THEN EmptyTask
                    ELSE IF task_id = "1" THEN first ELSE second],
       nexttasks |-> edges] :
        first \in PlaybookTasks, second \in LastTasks,
        edges \in SUBSET NextTasksCandidates }

InitPlaybook ==
    /\ NoGraph
    /\ stage = "parse_playbook"
    /\ yml_data \in PlaybookYmls
    /\ relationships = {}
    /\ Idle

NextPlaybook == PlaybookParser_connect_to_dependencies

SpecPlaybook == InitPlaybook /\ [][NextPlaybook]_vars

\* the mandatory flag PlaybookParser computes for a task of p1
TaskFlag(task_id) ==
    is_mandatory_dependency(build_tasks_graph(yml_data), task_id)

\* the tasks on the unconditional path, and those reachable only through the
\* alternate branch of a condition
OnMainPath(task_id) ==
    task_id \in ReachableTasks({ e \in yml_data.nexttasks : e.branch = "#none#" },
                               {yml_data.starttaskid}, Cardinality(TaskIds))

OnlyThroughAlternate(task_id) ==
    /\ ~OnMainPath(task_id)
    /\ task_id \in ReachableTasks(yml_data.nexttasks, {yml_data.starttaskid},
                                  Cardinality(TaskIds))

\* C11: every dependency extracted from a task carries the task's mandatory
\* flag: the dependencies of a task reachable only through an alternate
\* branch are non-mandatory, operator scripts of its filters and transformers
\* included, and those of a task on the unconditional path are mandatory
C11_DependenciesCarryTaskFlag ==
    stage = "playbook_parsed" =>
        \A task_id \in { t \in TaskIds : OnMainPath(t) \/ OnlyThroughAlternate(t) } :
            \A dep \in TaskDependencies(yml_data, build_tasks_graph(yml_data), task_id) :
                /\ dep \in relationships
                /\ dep.mandatorily = TaskFlag(task_id)
                /\ OnlyThroughAlternate(task_id) => ~dep.mandatorily
                /\ OnMainPath(task_id) => dep.mandatorily

\* the text of a command string before its first '|'
Qualifier(command) ==
    LET bar == CHOOSE i \in 1..Len(command) :
                   /\ command[i] = "|"
                   /\ \A j \in 1..(i - 1) : command[j] # "|"
    IN  SubSeq(command, 1, bar - 1)

\* the tasks of p1 whose command string is neither a setIncident nor a
\* setIndicator command nor one of LIST_COMMANDS
PlainCommandTasks ==
    { task_id \in TaskIds :
        LET command == yml_data.tasks[task_id].script
        IN  /\ command # <<>>
            /\ ~Contains(command, "setIncident")
            /\ ~Contains(command, "setIndicator")
            /\ command \notin LIST_COMMANDS }

\* the dependencies handle_command_task extracts from a task of p1
CommandDependencies(task_id) ==
    handle_command_task(yml_data.tasks[task_id], TaskFlag(task_id))

\* C12 as stated: such a task gives exactly one dependency: on a Script when
\* the command is prefixed Builtin, on the Integration named by a non-empty
\* qualifier, on the bare Command when there is no qualifier
C12_ExactlyOneDependency ==
    stage = "playbook_parsed" =>
        \A task_id \in PlainCommandTasks :
            LET command == yml_data.tasks[task_id].script
                deps == CommandDependencies(task_id)
            IN  /\ deps \subseteq relationships
                /\ Cardinality(deps) = 1
                /\ \A dep \in deps :
                     IF command[1] = "Builtin"
                     THEN dep.target_type = "Script"
                     ELSE IF Contains(command, "|") /\ Qualifier(command) # <<>>
                     THEN dep.target_type = "Integration" /\ dep.target = Qualifier(command)
                     ELSE dep.target_type = "Command" /\ dep.target = AfterLastBar(command)

\* C12, amended: a command string that contains Builtin gives no dependency;
\* any other gives exactly one: on the Integration named by a non-empty
\* qualifier, else on the bare Command
C12_BuiltinGivesNoDependency ==
    stage = "playbook_parsed" =>
        \A task_id \in PlainCommandTasks :
            LET command == yml_data.tasks[task_id].script
                deps == CommandDependencies(task_id)
            IN  /\ deps \subseteq relationships
                /\ Contains(command, "Builtin") => deps = {}
                /\ ~Contains(command, "Builtin") =>
                     /\ Cardinality(deps) = 1
                     /\ \A dep \in deps :
                          /\ dep.relationship = "USES"
                          /\ dep.mandatorily = TaskFlag(task_id)
                          /\ IF Contains(command, "|") /\ Qualifier(command) # <<>>
                             THEN /\ dep.target_type = "Integration"
                                  /\ dep.target = Qualifier(command)
                             ELSE /\ dep.target_type = "Command"
                                  /\ dep.target = AfterLastBar(command)
                /\ \A dep \in relationships :
                     dep.target_type = "Script" =>
                        dep.target \in {<<"scr">>, <<"flt">>, <<"trn">>}

\* a playbook parsed with a Builtin command in task "1" and a qualified
\* command in task "2": the only dependency is on the Integration
C12_Witness ==
    /\ stage = "playbook_parsed"
    /\ yml_data.tasks["1"].script = <<"Builtin">> \o Bars \o <<"print">>
    /\ yml_data.tasks["2"].script = <<"integ">> \o Bars \o <<"cmd">>
    /\ relationships =
         { add_dependency_of("p1", <<"integ">>, "Integration", TaskFlag("2")) }

(***************************************************************************)
(* ScriptParser on its own: script s1 with any dependson.must and a code   *)
(* of lines of one call each.                                              *)
(***************************************************************************)
QualifiedEntries ==
    DependsOnEntries
    \cup { Text("i1") \o <<"|">> \o Text("helper") \o <<"|">> \o Text("cmd1") }

SingleCallYmls ==
    [dependson_must : UNION { [1..n -> QualifiedEntries] : n \in 0..MaxDependsOn },
     script : UNION { [1..n -> { <<c>> : c \in Calls }] : n \in 0..MaxLines }]

InitScript ==
    /\ NoGraph
    /\ stage = "parse"
    /\ yml_data \in SingleCallYmls
    /\ relationships = {}
    /\ Idle

NextScript == ScriptParser_connect_to_dependencies

SpecScript == InitScript /\ [][NextScript]_vars

\* entry is target, or target behind a qualifier that ends in '|'
StripsTo(entry, target) ==
    /\ \A i \in 1..Len(target) : target[i] # "|"
    /\ Len(target) <= Len(entry)
    /\ SubSeq(entry, Len(entry) - Len(target) + 1, Len(entry)) = target
    /\ Len(target) < Len(entry) => entry[Len(entry) - Len(target)] = "|"

\* C13: every entry of dependson.must yields a dependency on the entry
\* without its qualifier, and every dependency of a script, from
\* dependson.must or from an execute_command call, is a mandatory
\* USES_COMMAND_OR_SCRIPT dependency on such an entry or called name
C13_DependsOnMustStripped ==
    stage = "resolve" =>
        /\ \A i \in 1..Len(yml_data.dependson_must) :
             \E dep \in relationships : StripsTo(yml_data.dependson_must[i], dep.target)
        /\ \A dep \in relationships :
             /\ dep.source = "s1"
             /\ dep.relationship = "USES_COMMAND_OR_SCRIPT"
             /\ dep.target_type = NoType
             /\ dep.mandatorily
             /\ \/ \E i \in 1..Len(yml_data.dependson_must) :
                      StripsTo(yml_data.dependson_must[i], dep.target)
                \/ \E i \in 1..Len(yml_data.script) :
                      \E j \in 1..Len(yml_data.script[i]) :
                        /\ yml_data.script[i][j].name = dep.target
                        /\ yml_data.script[i][j].function
                               \in {"execute_command", "executeCommand"}

\* s1 parsed with dependson.must = ["i1|helper|cmd1"]: one dependency, cmd1
C13_Witness ==
    /\ stage = "resolve"
    /\ yml_data.dependson_must =
          << Text("i1") \o <<"|">> \o Text("helper") \o <<"|">> \o Text("cmd1") >>
    /\ yml_data.script = <<>>
    /\ relationships = { add_dependency_of("s1", Text("cmd1"), NoType, TRUE) }

(***************************************************************************)
(* LayoutParser (content_graph/parsers/layout.py).  A JSON value is a      *)
(* record [kind, value, keys, items]: kind "str" with its value, "num",    *)
(* "null", "list" with its items, "dict" with its keys and, in the same    *)
(* order, the values under them.                                           *)
(***************************************************************************)
MaxDepth == 2       \* containers nested inside the layout's json

Str(v) == [kind |-> "str", value |-> v, keys |-> <<>>, items |-> <<>>]

Num == [kind |-> "num", value |-> "", keys |-> <<>>, items |-> <<>>]

ListOf(items) == [kind |-> "list", value |-> "", keys |-> <<>>, items |-> items]

DictOf(keys, items) == [kind |-> "dict", value |-> "", keys |-> keys, items |-> items]

\* json_data.get(key)
JsonGet(data, key) ==
    IF \E i \in 1..Len(data.keys) : data.keys[i] = key
    THEN data.items[CHOOSE i \in 1..Len(data.keys) : data.keys[i] = key]
    ELSE NoJson

\* get_values(current_object): the values appended, in the order of the scan
RECURSIVE get_values(_)
get_values(current_object) ==
    IF current_object.kind = "list"
    THEN LET F[i \in 0..Len(current_object.items)] ==
                 IF i = 0 THEN <<>>
                 ELSE F[i - 1] \o get_values(current_object.items[i])
         IN  F[Len(current_object.items)]
    ELSE IF current_object.kind = "dict"
    THEN LET OfEntry(i) ==
                 IF current_object.keys[i] = "fieldId" /\ current_object.items[i].kind = "str"
                 THEN <<current_object.items[i].value>>
                 ELSE get_values(current_object.items[i])
             F[i \in 0..Len(current_object.keys)] ==
                 IF i = 0 THEN <<>> ELSE F[i - 1] \o OfEntry(i)
         IN  F[Len(current_object.keys)]
    ELSE <<>>

\* the variant that reads fieldId keys of the top level only
get_field_ids_TopLevelOnly(current_object) ==
    IF current_object.kind = "dict"
    THEN LET OfEntry(i) ==
                 IF current_object.keys[i] = "fieldId" /\ current_object.items[i].kind = "str"
                 THEN <<current_object.items[i].value>>
                 ELSE <<>>
             F[i \in 0..Len(current_object.keys)] ==
                 IF i = 0 THEN <<>> ELSE F[i - 1] \o OfEntry(i)
         IN  F[Len(current_object.keys)]
    ELSE <<>>

get_field_ids_recursively(data) == get_values(data)

LayoutParser_connect_to_dependencies ==
    /\ stage = "parse_layout"
    /\ LET group == JsonGet(json_data, "group")
           dependency_field_type ==
               IF group = Str("incident") THEN "IncidentField" ELSE "IndicatorField"
           values == get_field_ids_recursively(json_data)
       IN  /\ relationships' =
                { add_dependency_of("l1", values[i], dependency_field_type, FALSE) :
                    i \in 1..Len(values) }
           /\ called' = [op |-> "get_field_ids_recursively", arg |-> <<>>,
                          ret |-> values, raised |-> ""]
    /\ stage' = "layout_parsed"
    /\ UNCHANGED <<graph, yml_data, layout, reasons_command, schema>>

(***************************************************************************)
(* The layouts of the analysis: l1, a dict with or without a group, whose  *)
(* other entries nest lists and dicts up to MaxDepth deep, with strings,   *)
(* numbers and small dicts beside the nested value.                        *)
(***************************************************************************)
LayoutLeaves == { Str("occurred"), Str("name"), Num }

LayoutSiblings == LayoutLeaves \cup { DictOf(<<"fieldId">>, <<Str("name")>>) }

LayoutKeys == { "fieldId", "sections" }

LayoutLists(child) ==
    { ListOf(<<child>>) } \cup { ListOf(<<sibling, child>>) : sibling \in LayoutSiblings }

LayoutDicts(child) ==
    { DictOf(<<key>>, <<child>>) : key \in LayoutKeys }
    \cup UNION { { DictOf(<<key, other>>, <<child, sibling>>) :
                     other \in LayoutKeys \ {key}, sibling \in LayoutSiblings } :
                   key \in LayoutKeys }

RECURSIVE JsonValues(_)
JsonValues(depth) ==
    IF depth = 0 THEN LayoutLeaves
    ELSE LET inner == JsonValues(depth - 1)
         IN  inner \cup UNION { LayoutLists(child) \cup LayoutDicts(child) : child \in inner }

LayoutGroups ==
    { DictOf(<<>>, <<>>),
      DictOf(<<"group">>, <<Str("incident")>>),
      DictOf(<<"group">>, <<Str("indicator")>>) }

LayoutJsons ==
    { DictOf(group.keys \o body.keys, group.items \o body.items) :
        group \in LayoutGroups,
        body \in UNION { LayoutDicts(child) : child \in JsonValues(MaxDepth - 1) } }

InitLayout ==
    /\ NoGraph
    /\ stage = "parse_layout"
    /\ yml_data = NoYml
    /\ relationships = {}
    /\ json_data \in LayoutJsons
    /\ called = NoCall
    /\ console = <<>>
    /\ queried = <<>>
    /\ connection = "closed"
    /\ cli = NoCommand
    /\ constraints = {}
    /\ indexes = {}
    /\ db_nodes = {}
    /\ setup = NoSetup

NextLayout == LayoutParser_connect_to_dependencies

SpecLayout == InitLayout /\ [][NextLayout]_vars

\* the positions of a JSON value: the index paths to its nested values
RECURSIVE JsonPaths(_)
JsonPaths(data) ==
    {<<>>} \cup UNION { { <<i>> \o path : path \in JsonPaths(data.items[i]) } :
                         i \in 1..Len(data.items) }

RECURSIVE JsonAt(_, _)
JsonAt(data, path) ==
    IF path = <<>> THEN data ELSE JsonAt(data.items[Head(path)], Tail(path))

\* the string-valued fieldId entries anywhere in the tree: <<path of the
\* dict, index of the entry>>
FieldIdEntries(data) ==
    UNION { { <<path, i>> : i \in { j \in 1..Len(JsonAt(data, path).keys) :
                                      /\ JsonAt(data, path).keys[j] = "fieldId"
                                      /\ JsonAt(data, path).items[j].kind = "str" } } :
            path \in JsonPaths(data) }

FieldIdValue(data, entry) == JsonAt(data, entry[1]).items[entry[2]].value

\* C14: the scan returns one value per string-valued fieldId entry of the
\* tree, and the parser holds exactly the optional dependencies on these
\* ids, of type IncidentField when the group is 'incident' and
\* IndicatorField otherwise
C14_OneOptionalDependencyPerFieldId ==
    stage = "layout_parsed" =>
        LET entries == FieldIdEntries(json_data)
            field_type ==
                IF \E i \in 1..Len(json_data.keys) :
                       json_data.keys[i] = "group" /\ json_data.items[i] = Str("incident")
                THEN "IncidentField" ELSE "IndicatorField"
        IN  /\ called.op = "get_field_ids_recursively"
            /\ Len(called.ret) = Cardinality(entries)
            /\ relationships =
                 { [source |-> "l1", relationship |-> "USES", target_type |-> field_type,
                    target |-> FieldIdValue(json_data, entry), mandatorily |-> FALSE] :
                     entry \in entries }

\* the layout {group: incident, sections: {fieldId: occurred}} parsed: one
\* optional dependency on IncidentField occurred
C14_Witness ==
    /\ stage = "layout_parsed"
    /\ json_data = DictOf(<<"group", "sections">>,
                          <<Str("incident"), DictOf(<<"fieldId">>, <<Str("occurred")>>)>>)
    /\ called.ret = <<"occurred">>
    /\ relationships =
         { add_dependency_of("l1", "occurred", "IncidentField", FALSE) }

(***************************************************************************)
(* The content type registry (content_graph/constants.py).  A member of    *)
(* ContentTypes is named by its value; Characters gives the value as the   *)
(* sequence of its characters, which is what a folder name is.             *)
(***************************************************************************)
ContentTypeMembers ==
    << "BaseContent", "Pack", "CommandOrScript", "Command", "Script",
      "Playbook", "Integration", "TestPlaybook", "IncidentField",
      "IncidentType", "IndicatorType", "IndicatorField", "Classifier",
      "Mapper", "Layout", "Widget", "Dashboard", "Report", "Connection",
      "GenericDefinition", "GenericField", "GenericModule", "GenericType",
      "List", "PreProcessRule", "Job", "ParsingRule", "ModelingRule",
      "CorrelationRule", "XSIAMDashboard", "XSIAMReport", "Trigger",
      "Wizard" >>

ContentTypes == { ContentTypeMembers[i] : i \in 1..Len(ContentTypeMembers) }

Characters(value) ==
    CASE value = "BaseContent" ->
             <<"B", "a", "s", "e", "C", "o", "n", "t", "e", "n", "t">>
      [] value = "Pack" ->
             <<"P", "a", "c", "k">>
      [] value = "CommandOrScript" ->
             <<"C", "o", "m", "m", "a", "n", "d", "O", "r", "S", "c", "r", "i", "p", "t">>
      [] value = "Command" ->
             <<"C", "o", "m", "m", "a", "n", "d">>
      [] value = "Script" ->
             <<"S", "c", "r", "i", "p", "t">>
      [] value = "Playbook" ->
             <<"P", "l", "a", "y", "b", "o", "o", "k">>
      [] value = "Integration" ->
             <<"I", "n", "t", "e", "g", "r", "a", "t", "i", "o", "n">>
      [] value = "TestPlaybook" ->
             <<"T", "e", "s", "t", "P", "l", "a", "y", "b", "o", "o", "k">>
      [] value = "IncidentField" ->
             <<"I", "n", "c", "i", "d", "e", "n", "t", "F", "i", "e", "l", "d">>
      [] value = "IncidentType" ->
             <<"I", "n", "c", "i", "d", "e", "n", "t", "T", "y", "p", "e">>
      [] value = "IndicatorType" ->
             <<"I", "n", "d", "i", "c", "a", "t", "o", "r", "T", "y", "p", "e">>
      [] value = "IndicatorField" ->
             <<"I", "n", "d", "i", "c", "a", "t", "o", "r", "F", "i", "e", "l", "d">>
      [] value = "Classifier" ->
             <<"C", "l", "a", "s", "s", "i", "f", "i", "e", "r">>
      [] value = "Mapper" ->
             <<"M", "a", "p", "p", "e", "r">>
      [] value = "Layout" ->
             <<"L", "a", "y", "o", "u", "t">>
      [] value = "Widget" ->
             <<"W", "i", "d", "g", "e", "t">>
      [] value = "Dashboard" ->
             <<"D", "a", "s", "h", "b", "o", "a", "r", "d">>
      [] value = "Report" ->
             <<"R", "e", "p", "o", "r", "t">>
      [] value = "Connection" ->
             <<"C", "o", "n", "n", "e", "c", "t", "i", "o", "n">>
      [] value = "GenericDefinition" ->
             <<"G", "e", "n", "e", "r", "i", "c", "D", "e", "f", "i", "n", "i", "t", "i", "o", "n">>
      [] value = "GenericField" ->
             <<"G", "e", "n", "e", "r", "i", "c", "F", "i", "e", "l", "d">>
      [] value = "GenericModule" ->
             <<"G", "e", "n", "e", "r", "i", "c", "M", "o", "d", "u", "l", "e">>
      [] value = "GenericType" ->
             <<"G", "e", "n", "e", "r", "i", "c", "T", "y", "p", "e">>
      [] value = "List" ->
             <<"L", "i", "s", "t">>
      [] value = "PreProcessRule" ->
             <<"P", "r", "e", "P", "r", "o", "c", "e", "s", "s", "R", "u", "l", "e">>
      [] value = "Job" ->
             <<"J", "o", "b">>
      [] value = "ParsingRule" ->
             <<"P", "a", "r", "s", "i", "n", "g", "R", "u", "l", "e">>
      [] value = "ModelingRule" ->
             <<"M", "o", "d", "e", "l", "i", "n", "g", "R", "u", "l", "e">>
      [] value = "CorrelationRule" ->
             <<"C", "o", "r", "r", "e", "l", "a", "t", "i", "o", "n", "R", "u", "l", "e">>
      [] value = "XSIAMDashboard" ->
             <<"X", "S", "I", "A", "M", "D", "a", "s", "h", "b", "o", "a", "r", "d">>
      [] value = "XSIAMReport" ->
             <<"X", "S", "I", "A", "M", "R", "e", "p", "o", "r", "t">>
      [] value = "Trigger" ->
             <<"T", "r", "i", "g", "g", "e", "r">>
      [] value = "Wizard" ->
             <<"W", "i", "z", "a", "r", "d">>

\* abstract_types()
abstract_types == { "BaseContent", "CommandOrScript" }

\* the variant that leaves the CommandOrScript label out
labels_NoCommandOrScript(type) ==
    {"BaseContent", type}
    \cup (IF type = "TestPlaybook" THEN {"Playbook"} ELSE {})

\* ContentTypes.labels, as the set of the list it returns
labels(type) ==
    {"BaseContent", type}
    \cup (IF type = "TestPlaybook" THEN {"Playbook"} ELSE {})
    \cup (IF type \in {"Script", "Command"} THEN {"CommandOrScript"} ELSE {})

\* folder[:-1]
DropLast(folder) == SubSeq(folder, 1, Len(folder) - 1)

\* cls(value): the member of that value, ValueError when there is none
ByValue(value) ==
    IF \E type \in ContentTypes : Characters(type) = value
    THEN [ret |-> CHOOSE type \in ContentTypes : Characters(type) = value, raised |-> ""]
    ELSE [ret |-> NoType, raised |-> "ValueError"]

by_folder(folder) == ByValue(DropLast(folder))

as_folder(type) == Characters(type) \o <<"s">>

\* the folder names of the analysis: every type's value as it is, with an
\* 's' and with an 'x' appended, the empty name, a lower-case name and the
\* name of a folder of a pack that holds no content items
Folders ==
    { Characters(type) : type \in ContentTypes }
    \cup { Characters(type) \o <<"s">> : type \in ContentTypes }
    \cup { Characters(type) \o <<"x">> : type \in ContentTypes }
    \cup { <<>>,
           <<"s", "c", "r", "i", "p", "t", "s">>,
           <<"R", "e", "l", "e", "a", "s", "e", "N", "o", "t", "e", "s">> }

ContentTypes_labels ==
    /\ stage = "registry"
    /\ \E type \in ContentTypes :
         called' = [op |-> "labels", arg |-> type, ret |-> labels(type), raised |-> ""]
    /\ UNCHANGED <<graph, stage, parser, layout, reasons_command, schema>>

ContentTypes_by_folder ==
    /\ stage = "registry"
    /\ \E folder \in Folders :
         called' = [op |-> "by_folder", arg |-> folder,
                    ret |-> by_folder(folder).ret, raised |-> by_folder(folder).raised]
    /\ UNCHANGED <<graph, stage, parser, layout, reasons_command, schema>>

ContentTypes_as_folder ==
    /\ stage = "registry"
    /\ \E type \in ContentTypes :
         called' = [op |-> "as_folder", arg |-> type, ret |-> as_folder(type), raised |-> ""]
    /\ UNCHANGED <<graph, stage, parser, layout, reasons_command, schema>>

InitRegistry ==
    /\ NoGraph
    /\ stage = "registry"
    /\ yml_data = NoYml
    /\ relationships = {}
    /\ Idle

NextRegistry ==
    \/ ContentTypes_labels
    \/ ContentTypes_by_folder
    \/ ContentTypes_as_folder

SpecRegistry == InitRegistry /\ [][NextRegistry]_vars

\* the folder names that are the plural form of a content type
PluralFolders == { Characters(type) \o <<"s">> : type \in ContentTypes }

\* C15: the labels of a concrete type are BaseContent and its own label,
\* CommandOrScript exactly for Script and Command, Playbook (besides
\* Playbook's own) exactly for TestPlaybook, and nothing else
C15_LabelsOfConcreteType ==
    (called.op = "labels" /\ called.arg \notin abstract_types) =>
        /\ "BaseContent" \in called.ret
        /\ called.arg \in called.ret
        /\ "CommandOrScript" \in called.ret <=> called.arg \in {"Script", "Command"}
        /\ called.arg # "Playbook" =>
              ("Playbook" \in called.ret <=> called.arg = "TestPlaybook")
        /\ called.ret \subseteq {"BaseContent", called.arg, "CommandOrScript", "Playbook"}

\* labels of Script: BaseContent, Script, CommandOrScript
C15_Witness ==
    /\ called.op = "labels"
    /\ called.arg = "Script"
    /\ called.ret = {"BaseContent", "Script", "CommandOrScript"}

\* C16: by_folder on a name that is not the plural form of a content type
\* fails and returns no type
C16_UnknownFolderFails ==
    (called.op = "by_folder" /\ called.arg \notin PluralFolders) =>
        /\ called.raised # ""
        /\ called.ret = NoType

\* C17: by_folder(t.as_folder) = t for every type t, and
\* by_folder(f).as_folder = f for every folder name f by_folder accepts
C17_FolderRoundTrip ==
    /\ called.op = "as_folder" =>
          /\ by_folder(called.ret).raised = ""
          /\ by_folder(called.ret).ret = called.arg
    /\ (called.op = "by_folder" /\ called.raised = "") =>
          as_folder(called.ret) = called.arg

(***************************************************************************)
(* The schema of the store (queries/constraints.py, queries/indexes.py).   *)
(* A uniqueness constraint is <<label, prop>>, an index <<kind, label,     *)
(* props>>.  Each CREATE ... IF NOT EXISTS query adds its rule unless the  *)
(* store holds it already.  The outcome of a setup function is             *)
(* [rules, raised]: the rules of the store after it and the error that     *)
(* ended it, "" when it returned.                                          *)
(***************************************************************************)
MaxSetupRuns == 2   \* runs of create_constraints, and of create_indexes, on one store

\* the variant without IF NOT EXISTS: creating a rule the store holds is an
\* error
Create_Unconditional(outcome, rule) ==
    IF outcome.raised # "" THEN outcome
    ELSE IF rule \in outcome.rules
    THEN [rules |-> outcome.rules, raised |-> "EquivalentSchemaRuleAlreadyExists"]
    ELSE [rules |-> outcome.rules \cup {rule}, raised |-> ""]

\* run_query of a CREATE ... IF NOT EXISTS template, after the queries that
\* gave `outcome`: not run when one of them raised
CreateIfNotExists(outcome, rule) ==
    IF outcome.raised # "" THEN outcome
    ELSE [rules |-> outcome.rules \cup {rule}, raised |-> ""]

create_node_property_uniqueness_constraint(outcome, label, prop) ==
    CreateIfNotExists(outcome, <<label, prop>>)

\* the variant that installs no constraint
create_nodes_constraints_None(rules) == [rules |-> rules, raised |-> ""]

create_nodes_constraints(rules) ==
    create_node_property_uniqueness_constraint(
        create_node_property_uniqueness_constraint(
            [rules |-> rules, raised |-> ""], "Command", "id"),
        "Command", "node_id")

NODE_INDEX_OPTIONS ==
    << <<"node_id">>, <<"marketplaces">>, <<"object_id">>,
       <<"node_id", "fromversion", "marketplaces">> >>

create_single_node_index(outcome, label, indexed_properties) ==
    CreateIfNotExists(outcome, <<"node", label, indexed_properties>>)

create_single_relationship_index(outcome, rel, indexed_properties) ==
    CreateIfNotExists(outcome, <<"rel", rel, indexed_properties>>)

\* the node index queries of create_indexes, in the order of its loops
IsIndexed(label) == label # "Command"

IndexedTypes == SelectSeq(ContentTypeMembers, IsIndexed)

NodeIndexQueries ==
    [k \in 1..(Len(IndexedTypes) * Len(NODE_INDEX_OPTIONS)) |->
        << IndexedTypes[((k - 1) \div Len(NODE_INDEX_OPTIONS)) + 1],
           NODE_INDEX_OPTIONS[((k - 1) % Len(NODE_INDEX_OPTIONS)) + 1] >>]

\* the store before the k-th node index query, had none of the earlier ones
\* raised
BeforeQuery(rules, k) ==
    [rules |-> rules \cup { <<"node", NodeIndexQueries[j][1], NodeIndexQueries[j][2]>> :
                              j \in 1..(k - 1) },
     raised |-> ""]

NodeIndexQuery(rules, k) ==
    create_single_node_index(BeforeQuery(rules, k), NodeIndexQueries[k][1],
                             NodeIndexQueries[k][2])

\* the queries run in order and the first that raises ends the run
create_indexes_effect(rules) ==
    LET raising == { k \in 1..Len(NodeIndexQueries) :
                        NodeIndexQuery(rules, k).raised # "" }
        first   == CHOOSE k \in raising : \A j \in raising : k <= j
    IN  IF raising # {} THEN NodeIndexQuery(rules, first)
        ELSE create_single_relationship_index(
                 create_single_relationship_index(
                     BeforeQuery(rules, Len(NodeIndexQueries) + 1),
                     "USES", <<"mandatorily">>),
                 "HAS_COMMAND", <<"deprecated", "description">>)

create_constraints ==
    /\ stage = "schema"
    /\ setup.constraints_runs < MaxSetupRuns
    /\ LET outcome == create_nodes_constraints(constraints)
       IN  /\ constraints' = outcome.rules
           /\ setup' = [setup EXCEPT
                  !.constraints_runs = @ + 1,
                  !.first_constraints = IF setup.constraints_runs = 0
                                        THEN outcome.rules ELSE @,
                  !.raised = IF outcome.raised # "" THEN outcome.raised ELSE @]
           /\ called' = [op |-> "create_constraints", arg |-> <<>>, ret |-> <<>>,
                         raised |-> outcome.raised]
    /\ UNCHANGED <<graph, stage, parser, layout, reasons_command, indexes, db_nodes>>

create_indexes ==
    /\ stage = "schema"
    /\ setup.indexes_runs < MaxSetupRuns
    /\ LET outcome == create_indexes_effect(indexes)
       IN  /\ indexes' = outcome.rules
           /\ setup' = [setup EXCEPT
                  !.indexes_runs = @ + 1,
                  !.first_indexes = IF setup.indexes_runs = 0
                                    THEN outcome.rules ELSE @,
                  !.raised = IF outcome.raised # "" THEN outcome.raised ELSE @]
           /\ called' = [op |-> "create_indexes", arg |-> <<>>, ret |-> <<>>,
                         raised |-> outcome.raised]
    /\ UNCHANGED <<graph, stage, parser, layout, reasons_command, constraints, db_nodes>>

(***************************************************************************)
(* Writing a node to the store once its constraints are set up: the store  *)
(* rejects a node that shares, with a node it holds, the value of a        *)
(* property a uniqueness constraint covers under a label both carry.       *)
(***************************************************************************)
StoreNode(type, id, origin) ==
    [labels |-> labels(type), id |-> id, node_id |-> <<type, id>>, origin |-> origin]

NodeCandidates ==
    { StoreNode("Command", "cmd1", "i1"),
      StoreNode("Command", "cmd1", "i2"),
      StoreNode("Command", "ip", "i1"),
      StoreNode("Script", "helper", "PackB"),
      StoreNode("Script", "helper", "Base"),
      StoreNode("Integration", "i1", "PackB") }

SameProperty(a, b, prop) ==
    IF prop = "id" THEN a.id = b.id ELSE a.node_id = b.node_id

ViolatesUniqueness(node, existing, rules) ==
    \E rule \in rules : \E other \in existing :
        /\ rule[1] \in node.labels
        /\ rule[1] \in other.labels
        /\ SameProperty(node, other, rule[2])

create_node ==
    /\ stage = "schema"
    /\ setup.constraints_runs >= 1
    /\ \E node \in NodeCandidates \ db_nodes :
         IF ViolatesUniqueness(node, db_nodes, constraints)
         THEN /\ db_nodes' = db_nodes
              /\ called' = [op |-> "create_node", arg |-> node, ret |-> <<>>,
                            raised |-> "ConstraintValidationFailed"]
         ELSE /\ db_nodes' = db_nodes \cup {node}
              /\ called' = [op |-> "create_node", arg |-> node, ret |-> <<>>,
                            raised |-> ""]
    /\ UNCHANGED <<graph, stage, parser, layout, reasons_command, constraints, indexes, setup>>

InitSchema ==
    /\ NoGraph
    /\ stage = "schema"
    /\ yml_data = NoYml
    /\ relationships = {}
    /\ Idle

NextSchema ==
    \/ create_constraints
    \/ create_indexes
    \/ create_node

SpecSchema == InitSchema /\ [][NextSchema]_vars

IsCommandNode(node) == "Command" \in node.labels

\* C18 as stated: under the schema a second Command node with the id of an
\* existing one is accepted, and nodes of every other type have distinct
\* node_ids
C18_DuplicateCommandPermitted ==
    /\ (called.op = "create_node" /\ IsCommandNode(called.arg)) => called.raised = ""
    /\ \A a, b \in db_nodes :
         (a # b /\ ~IsCommandNode(a) /\ ~IsCommandNode(b)) => a.node_id # b.node_id

\* C18, amended: the schema holds uniqueness constraints on Command.id and
\* Command.node_id and no other: a node is rejected exactly when it is a
\* Command node with the id of a Command node of the store, so Command
\* nodes have distinct ids and node_ids
C18_CommandIdUnique ==
    setup.constraints_runs >= 1 =>
        /\ constraints = { <<"Command", "id">>, <<"Command", "node_id">> }
        /\ \A a, b \in db_nodes :
             (a # b /\ IsCommandNode(a) /\ IsCommandNode(b)) =>
                 (a.id # b.id /\ a.node_id # b.node_id)
        /\ called.op = "create_node" =>
             (called.raised # "" <=>
                 /\ IsCommandNode(called.arg)
                 /\ \E other \in db_nodes :
                      other # called.arg /\ IsCommandNode(other) /\ other.id = called.arg.id)

\* the store holds command cmd1 of i1 and both scripts named helper, and
\* has just rejected command cmd1 of i2
C18_Witness ==
    /\ called.op = "create_node"
    /\ called.arg = StoreNode("Command", "cmd1", "i2")
    /\ called.raised = "ConstraintValidationFailed"
    /\ { StoreNode("Command", "cmd1", "i1"), StoreNode("Script", "helper", "PackB"),
         StoreNode("Script", "helper", "Base") } \subseteq db_nodes

\* C19: no run of create_constraints or create_indexes raises, and after
\* any run that follows the first the store holds the constraints and the
\* indexes it held after the first
C19_SetupIdempotent ==
    /\ setup.raised = ""
    /\ setup.constraints_runs >= 1 => constraints = setup.first_constraints
    /\ setup.indexes_runs >= 1 => indexes = setup.first_indexes

\* both setup functions have run again, on a store that holds nodes
C19_Witness ==
    /\ setup.constraints_runs >= 2
    /\ setup.indexes_runs >= 2
    /\ called.op \in {"create_constraints", "create_indexes"}
    /\ db_nodes # {}
    /\ Cardinality(constraints) = 2
    /\ Cardinality(indexes) =
         Len(NODE_INDEX_OPTIONS) * Cardinality(ContentTypes \ {"Command"}) + 2

(***************************************************************************)
(* The get-dependencies-reasons command.  A message is a sequence of       *)
(* tokens, a markup tag such as [cyan] being one token; a value handed to  *)
(* the logger is a str or None.                                            *)
(***************************************************************************)
None == [type |-> "NoneType", tokens |-> <<>>]

Message(tokens) == [type |-> "str", tokens |-> tokens]

escapes ==
    ("[bold]" :> "ESC[01m") @@ ("[disable]" :> "ESC[02m") @@ ("[underline]" :> "ESC[04m") @@
    ("[reverse]" :> "ESC[07m") @@ ("[strikethrough]" :> "ESC[09m") @@ ("[invisible]" :> "ESC[08m") @@
    ("[/bold]" :> "ESC[0m") @@ ("[/disable]" :> "ESC[0m") @@ ("[/underline]" :> "ESC[0m") @@
    ("[/reverse]" :> "ESC[0m") @@ ("[/strikethrough]" :> "ESC[0m") @@ ("[/invisible]" :> "ESC[0m") @@
    ("[black]" :> "ESC[30m") @@ ("[red]" :> "ESC[91m") @@ ("[darkred]" :> "ESC[31m") @@
    ("[lightred]" :> "ESC[91m") @@ ("[darkgrey]" :> "ESC[90m") @@ ("[lightgrey]" :> "ESC[37m") @@
    ("[green]" :> "ESC[32m") @@ ("[lightgreen]" :> "ESC[92m") @@ ("[orange]" :> "ESC[33m") @@
    ("[blue]" :> "ESC[34m") @@ ("[lightblue]" :> "ESC[94m") @@ ("[purple]" :> "ESC[35m") @@
    ("[cyan]" :> "ESC[36m") @@ ("[lightcyan]" :> "ESC[96m") @@ ("[yellow]" :> "ESC[93m") @@
    ("[pink]" :> "ESC[95m") @@ ("[/black]" :> "ESC[0m") @@ ("[/red]" :> "ESC[0m") @@
    ("[/darkred]" :> "ESC[0m") @@ ("[/lightred]" :> "ESC[0m") @@ ("[/lightgrey]" :> "ESC[0m") @@
    ("[/darkgrey]" :> "ESC[0m") @@ ("[/green]" :> "ESC[0m") @@ ("[/lightgreen]" :> "ESC[0m") @@
    ("[/orange]" :> "ESC[0m") @@ ("[/blue]" :> "ESC[0m") @@ ("[/lightblue]" :> "ESC[0m") @@
    ("[/purple]" :> "ESC[0m") @@ ("[/cyan]" :> "ESC[0m") @@ ("[/lightcyan]" :> "ESC[0m") @@
    ("[/yellow]" :> "ESC[0m") @@ ("[/pink]" :> "ESC[0m")

\* LogRecord.getMessage of a record without arguments: str(msg)
getMessage(msg) == IF msg.type = "NoneType" THEN <<"None">> ELSE msg.tokens

\* no key of escapes starts with "[/]"
record_contains_escapes(msg) ==
    \E key \in DOMAIN escapes : key \in Range(getMessage(msg))

replace_escapes(message) ==
    [i \in 1..Len(message) |->
        IF message[i] \in DOMAIN escapes THEN escapes[message[i]] ELSE message[i]]

\* ColorConsoleFormatter.format of a record of level INFO
ColorConsoleFormatter_format(msg) ==
    replace_escapes(
        IF record_contains_escapes(msg) THEN getMessage(msg)
        ELSE <<"[lightgrey]">> \o getMessage(msg) \o <<"[/lightgrey]">>)

\* logger.info: the line the console handler emits
logger_info(msg) == ColorConsoleFormatter_format(msg)

\* the variant that consumes the paths it logs: the record is left without its
\* mandatory flags
log_record_ConsumesFlags(record) ==
    [record |-> [record EXCEPT !.mandatorily = {}], logged |-> <<>>]

\* the record as the call leaves it, and the lines it logs
log_record(record) == [record |-> record, logged |-> <<>>]

\* the variant that reads the first record of the data
to_tabulate_FirstRecord(data) ==
    IF data = <<>> THEN [value |-> None, raised |-> "IndexError"]
    ELSE [value |-> Message(<<data[1].filepath>>), raised |-> ""]

to_tabulate(data) == [value |-> None, raised |-> ""]

(***************************************************************************)
(* graph.get_dependencies_reasons: for each direction, the USES paths from *)
(* an item of one pack to an item of the other, over relationships that    *)
(* pass the mandatory filter and nodes of the marketplace, grouped by the  *)
(* item they start at with the minimal depth.  The order of the records is *)
(* not determined.  The graphs of this model hold no TESTED_BY             *)
(* relationship, so include_tests selects nothing more.                    *)
(***************************************************************************)
Min(S) == CHOOSE d \in S : \A e \in S : d <= e

ReasonPaths(mps, U, pack_a, pack_b, marketplace, mandatory_only) ==
    LET E == { e \in U :
                  /\ mandatory_only => e.mandatorily
                  /\ marketplace \in mps[e.src]
                  /\ marketplace \in mps[e.dst] }
    IN  { t \in ExtendPaths(E, { <<e>> : e \in E }, Cardinality(E)) :
             /\ pack_a \in PackOf(t[1].src)
             /\ pack_b \in PackOf(t[Len(t)].dst) }

\* mandatorily holds the flags of the shortest paths: both flags stand for
\* the null of a mixed record
PathRecords(mps, U, pack_a, pack_b, marketplace, mandatory_only, is_source) ==
    LET paths == ReasonPaths(mps, U, pack_a, pack_b, marketplace, mandatory_only)
        OfItem(item) == { t \in paths : t[1].src = item }
        Depth(item) == Min({ Len(t) : t \in OfItem(item) })
    IN  { [filepath |-> item,
           is_source |-> is_source,
           minDepth |-> Depth(item),
           mandatorily |-> { (\A i \in 1..Len(t) : t[i].mandatorily) :
                                t \in { p \in OfItem(item) : Len(p) = Depth(item) } }] :
          item \in { t[1].src : t \in paths } }

Enumerations(S) == { list \in [1..Cardinality(S) -> S] : Range(list) = S }

graph_get_dependencies_reasons(mps, U, source, target, marketplace, mandatory_only) ==
    Enumerations(
        PathRecords(mps, U, source, target, marketplace, mandatory_only, TRUE)
        \cup PathRecords(mps, U, target, source, marketplace, mandatory_only, FALSE))

SUMMARY == Message(<<"[cyan]", "====== SUMMARY ======", "[/cyan]">>)

\* PackX is a pack the graph does not hold; the command asks for the reasons
\* of one pair of packs
RequestedPacks == PackNodes \cup {"PackX"}

get_dependencies_reasons_by_pack_ids ==
    /\ stage = "reasons"
    /\ \E source \in RequestedPacks, target \in RequestedPacks,
          marketplace \in AllMarketplaces,
          mandatory_only \in BOOLEAN, include_tests \in BOOLEAN :
         \E reasons \in graph_get_dependencies_reasons(
                            marketplaces, uses, source, target, marketplace,
                            mandatory_only) :
           LET logged  == [i \in 1..Len(reasons) |-> log_record(reasons[i])]
               records == [i \in 1..Len(reasons) |-> logged[i].record]
               table   == to_tabulate(records)
           IN  /\ queried' = reasons
               /\ IF table.raised # ""
                  THEN /\ console' = <<logger_info(SUMMARY)>>
                       /\ called' = [op |-> "get_dependencies_reasons_by_pack_ids",
                                     arg |-> <<source, target, marketplace,
                                               mandatory_only, include_tests>>,
                                     ret |-> <<>>, raised |-> table.raised]
                  ELSE /\ console' = <<logger_info(SUMMARY), logger_info(table.value)>>
                       /\ called' = [op |-> "get_dependencies_reasons_by_pack_ids",
                                     arg |-> <<source, target, marketplace,
                                               mandatory_only, include_tests>>,
                                     ret |-> records, raised |-> ""]
    /\ stage' = "reasons_given"
    /\ UNCHANGED <<graph, parser, layout, schema, connection, cli>>

\* the graphs the command is run on: the built graphs, where only the
\* script helper may be missing from a marketplace
ReasonsMarketplaces ==
    { m \in BuiltMarketplaces : \A n \in Nodes \ {"helper"} : m[n] = AllMarketplaces }

InitReasons ==
    /\ marketplaces \in ReasonsMarketplaces
    /\ uses \in BuiltUses
    /\ depends_on = {}
    /\ pc = 0
    /\ runs = 0
    /\ prev = marketplaces
    /\ last = [op |-> "build", marketplace |-> ""]
    /\ written = {}
    /\ stage = "reasons"
    /\ yml_data = NoYml
    /\ relationships = {}
    /\ Idle

NextReasons == get_dependencies_reasons_by_pack_ids

SpecReasons == InitReasons /\ [][NextReasons]_vars

\* the items a chain of USES relationships leads to from the items of S
RECURSIVE UsesClosure(_, _)
UsesClosure(S, k) ==
    IF k = 0 THEN S
    ELSE UsesClosure(S \cup { r.dst : r \in { u \in uses : u.src \in S } }, k - 1)

Reaches(pack_a, pack_b) ==
    \E r \in uses :
        /\ pack_a \in PackOf(r.src)
        /\ \E n \in UsesClosure({r.dst}, Cardinality(uses)) : pack_b \in PackOf(n)

ReasonsRequested == called.op = "get_dependencies_reasons_by_pack_ids"

\* C20: when no chain of USES relationships links the items of the source
\* pack and of the target pack, in either direction,
\* get_dependencies_reasons_by_pack_ids returns the empty list and raises
\* nothing, having logged the summary header and the summary: the text None
C20_NoPathGivesEmptyList ==
    (/\ ReasonsRequested
     /\ ~Reaches(called.arg[1], called.arg[2])
     /\ ~Reaches(called.arg[2], called.arg[1])) =>
        /\ called.ret = <<>>
        /\ called.raised = ""
        /\ console = << <<"ESC[36m", "====== SUMMARY ======", "ESC[0m">>,
                        <<"ESC[37m", "None", "ESC[0m">> >>

\* reasons were requested for PackA and PackX on a graph where PackA uses
\* PackB: PackX holds no item
C20_Witness ==
    /\ ReasonsRequested
    /\ called.arg[1] = "PackA"
    /\ called.arg[2] = "PackX"
    /\ UsesBetween("PackA", "PackB") # {}
    /\ called.ret = <<>>
    /\ called.raised = ""
    /\ Len(console) = 2

\* C21: the list get_dependencies_reasons_by_pack_ids returns is the list the
\* graph query yielded, record for record and in its order; with
\* mandatory_only = False an optional USES relationship from an item of the
\* source pack to an item of the target pack shows in the item's record,
\* whatever mandatory relationships the item has at that depth
C21_ReturnsEveryRecord ==
    (ReasonsRequested /\ called.raised = "") =>
        /\ called.ret = queried
        /\ ~called.arg[4] =>
             \A e \in UsesBetween(called.arg[1], called.arg[2]) :
                 (/\ ~e.mandatorily
                  /\ called.arg[3] \in marketplaces[e.src]
                  /\ called.arg[3] \in marketplaces[e.dst]) =>
                     \E i \in 1..Len(called.ret) :
                         /\ called.ret[i].filepath = e.src
                         /\ called.ret[i].is_source
                         /\ called.ret[i].minDepth = 1
                         /\ FALSE \in called.ret[i].mandatorily

\* the script s1 of PackA uses one item of PackB mandatorily and another
\* optionally, and the reasons for (PackA, PackB) were requested with
\* mandatory_only = False: the record of s1 carries both flags
C21_Witness ==
    /\ ReasonsRequested
    /\ called.arg[1] = "PackA"
    /\ called.arg[2] = "PackB"
    /\ ~called.arg[4]
    /\ \E e, f \in UsesBetween("PackA", "PackB") :
           e.src = "s1" /\ f.src = "s1" /\ e.mandatorily /\ ~f.mandatorily
    /\ \E i \in 1..Len(called.ret) :
           /\ called.ret[i].filepath = "s1"
           /\ called.ret[i].mandatorily = {TRUE, FALSE}

(***************************************************************************)
(* The command get_dependencies_reasons: logging set up, then              *)
(*   with ContentGraphInterface() as graph:                                *)
(*       if update_graph: update_content_graph(graph)                      *)
(*       reasons = get_dependencies_reasons_by_pack_ids(graph, ...)        *)
(*       if output: (output / ...).write_text(json.dumps(reasons))         *)
(* one action per step; the update, the query and the write can fail.      *)
(***************************************************************************)
\* the scoped acquisition of ContentGraphInterface: the connection to the
\* store is opened on entry and closed on exit
ContentGraphInterface_enter(conn) == "open"

ContentGraphInterface_exit(conn) == "closed"

\* the variant that leaves the block by a plain call after its last
\* statement: an exception passes the call by
leave_with_OnSuccessOnly(conn, error) ==
    IF error = "" THEN ContentGraphInterface_exit(conn) ELSE conn

\* leaving the with block, normally or by an exception
leave_with(conn, error) == ContentGraphInterface_exit(conn)

get_dependencies_reasons_enter ==
    /\ stage = "command"
    /\ \E opened \in BOOLEAN :
         IF opened
         THEN /\ connection' = ContentGraphInterface_enter(connection)
              /\ cli' = [cli EXCEPT !.acquired = @ + 1]
              /\ stage' = IF cli.update_graph THEN "update" ELSE "reasons"
         ELSE /\ connection' = connection
              /\ cli' = [cli EXCEPT !.error = "acquire"]
              /\ stage' = "done"
    /\ UNCHANGED <<graph, parser, layout, called, console, queried, schema>>

get_dependencies_reasons_update ==
    /\ stage = "update"
    /\ \E updated \in BOOLEAN :
         IF updated
         THEN /\ cli' = [cli EXCEPT !.updated = TRUE]
              /\ stage' = "reasons"
         ELSE /\ cli' = [cli EXCEPT !.error = "update"]
              /\ stage' = "leave"
    /\ UNCHANGED <<graph, parser, layout, called, console, queried, connection, schema>>

\* the store fails the query of get_dependencies_reasons_by_pack_ids
get_dependencies_reasons_query_fails ==
    /\ stage = "reasons"
    /\ cli.acquired > 0
    /\ called' = [op |-> "get_dependencies_reasons_by_pack_ids", arg |-> <<>>,
                  ret |-> <<>>, raised |-> "ServiceUnavailable"]
    /\ queried' = <<>>
    /\ console' = <<>>
    /\ stage' = "reasons_given"
    /\ UNCHANGED <<graph, parser, layout, connection, cli, schema>>

get_dependencies_reasons_output ==
    /\ stage = "reasons_given"
    /\ cli.acquired > 0
    /\ called.raised = ""
    /\ cli.output
    /\ \E wrote \in BOOLEAN :
         cli' = IF wrote THEN [cli EXCEPT !.written = TRUE]
                ELSE [cli EXCEPT !.error = "output"]
    /\ stage' = "leave"
    /\ UNCHANGED <<graph, parser, layout, called, console, queried, connection, schema>>

get_dependencies_reasons_exit ==
    /\ cli.acquired > 0
    /\ \/ stage = "leave"
       \/ stage = "reasons_given" /\ (called.raised # "" \/ ~cli.output)
    /\ LET error == IF stage = "reasons_given" /\ called.raised # ""
                    THEN "query" ELSE cli.error
       IN  /\ connection' = leave_with(connection, error)
           /\ cli' = [cli EXCEPT
                  !.error = error,
                  !.released = IF leave_with(connection, error) = "closed"
                               THEN @ + 1 ELSE @]
    /\ stage' = "done"
    /\ UNCHANGED <<graph, parser, layout, called, console, queried, schema>>

\* the graphs the command is run on
CommandUses ==
    { U \in BuiltUses :
         U \subseteq { [src |-> "s1", dst |-> "helper", mandatorily |-> TRUE],
                       [src |-> "helper", dst |-> "p1", mandatorily |-> FALSE] } }

InitCommand ==
    /\ marketplaces = [n \in Nodes |-> AllMarketplaces]
    /\ uses \in CommandUses
    /\ depends_on = {}
    /\ pc = 0
    /\ runs = 0
    /\ prev = marketplaces
    /\ last = [op |-> "build", marketplace |-> ""]
    /\ written = {}
    /\ stage = "command"
    /\ yml_data = NoYml
    /\ relationships = {}
    /\ json_data = NoJson
    /\ called = NoCall
    /\ console = <<>>
    /\ queried = <<>>
    /\ connection = "closed"
    /\ \E update_graph \in BOOLEAN, output \in BOOLEAN :
         cli = [NoCommand EXCEPT !.update_graph = update_graph, !.output = output]
    /\ constraints = {}
    /\ indexes = {}
    /\ db_nodes = {}
    /\ setup = NoSetup

NextCommand ==
    \/ get_dependencies_reasons_enter
    \/ get_dependencies_reasons_update
    \/ get_dependencies_reasons_by_pack_ids
    \/ get_dependencies_reasons_query_fails
    \/ get_dependencies_reasons_output
    \/ get_dependencies_reasons_exit

SpecCommand == InitCommand /\ [][NextCommand]_vars

\* C22: the update and the query run on an open connection acquired once;
\* when the command has ended, normally or after a failure of the update,
\* of the query or of the write of the output, the connection is closed and
\* was released once; with update_graph the query starts, and has run, only
\* after the update has finished
C22_ConnectionScoped ==
    /\ stage \in {"update", "reasons", "reasons_given", "leave"} =>
           (connection = "open" /\ cli.acquired = 1 /\ cli.released = 0)
    /\ stage = "done" =>
           /\ connection = "closed"
           /\ cli.released = cli.acquired
           /\ cli.error \in {"", "acquire", "update", "query", "output"}
    /\ (stage \in {"reasons", "reasons_given"} /\ cli.update_graph) => cli.updated
    /\ (stage = "done" /\ ReasonsRequested /\ cli.update_graph) => cli.updated

\* the command has ended after the query failed on an updated graph
C22_Witness ==
    /\ stage = "done"
    /\ cli.update_graph
    /\ cli.updated
    /\ cli.error = "query"
    /\ called.raised = "ServiceUnavailable"
    /\ cli.acquired = 1
    /\ connection = "closed"

\* the command has ended after the write of the output failed
C22_WitnessOutput ==
    /\ stage = "done"
    /\ cli.error = "output"
    /\ called.raised = ""
    /\ connection = "closed"

(***************************************************************************)
(* The identity of a parsed item: PlaybookParser, TriggerParser and        *)
(* XSIAMDashboardParser.  json_data holds the data of the file, yml or     *)
(* json; the outcome of reading a property is its value or the error the   *)
(* read raises.                                                            *)
(***************************************************************************)
Null == NoJson

Outcome(value, raised) == [value |-> value, raised |-> raised]

\* data[key]
JsonItem(data, key) ==
    IF \E i \in 1..Len(data.keys) : data.keys[i] = key
    THEN Outcome(JsonGet(data, key), "")
    ELSE Outcome(Null, "KeyError")

PlaybookParser_content_item_id(data) == Outcome(JsonGet(data, "id"), "")

TriggerParser_object_id(data) == Outcome(JsonGet(data, "trigger_id"), "")

XSIAMDashboardParser_object_id(data) == JsonItem(data, "global_id")

\* the constructor of the parsers' base class: a file whose identity cannot
\* be determined, or is empty, is refused
ContentItemParser_init(identity) ==
    IF identity.raised # "" \/ identity.value = Null \/ identity.value = Str("")
    THEN "MissingIdentityFieldError"
    ELSE ""

\* self.json_data.get('dashboards_data', [{}])[0]
dashboards_data_first(data) ==
    LET dashboards_data ==
            IF \E i \in 1..Len(data.keys) : data.keys[i] = "dashboards_data"
            THEN JsonGet(data, "dashboards_data")
            ELSE ListOf(<<DictOf(<<>>, <<>>)>>)
    IN  IF dashboards_data.kind = "list"
        THEN IF Len(dashboards_data.items) > 0
             THEN Outcome(dashboards_data.items[1], "")
             ELSE Outcome(Null, "IndexError")
        ELSE IF dashboards_data.kind = "dict"
        THEN Outcome(Null, "KeyError")
        ELSE Outcome(Null, "TypeError")

Parsed(parser_name, identity, raised) ==
    [op |-> parser_name, arg |-> <<>>, ret |-> <<identity>>, raised |-> raised]

PlaybookParser_init ==
    /\ stage = "parse_item"
    /\ called' = Parsed("PlaybookParser", PlaybookParser_content_item_id(json_data),
                        ContentItemParser_init(PlaybookParser_content_item_id(json_data)))
    /\ stage' = "item_parsed"
    /\ UNCHANGED <<graph, parser, layout, reasons_command, schema>>

TriggerParser_init ==
    /\ stage = "parse_item"
    /\ called' = Parsed("TriggerParser", TriggerParser_object_id(json_data),
                        ContentItemParser_init(TriggerParser_object_id(json_data)))
    /\ stage' = "item_parsed"
    /\ UNCHANGED <<graph, parser, layout, reasons_command, schema>>

\* the base constructor and the print read object_id from the data of the
\* file; json_data is then replaced by the first dashboard
XSIAMDashboardParser_init ==
    /\ stage = "parse_item"
    /\ LET refused == ContentItemParser_init(XSIAMDashboardParser_object_id(json_data))
           first   == dashboards_data_first(json_data)
       IN  IF refused # ""
           THEN /\ called' = Parsed("XSIAMDashboardParser",
                                    XSIAMDashboardParser_object_id(json_data), refused)
                /\ json_data' = json_data
           ELSE IF first.raised # ""
           THEN /\ called' = Parsed("XSIAMDashboardParser",
                                    XSIAMDashboardParser_object_id(json_data),
                                    first.raised)
                /\ json_data' = json_data
           ELSE /\ json_data' = first.value
                /\ called' = Parsed("XSIAMDashboardParser",
                                    IF first.value.kind = "dict"
                                    THEN XSIAMDashboardParser_object_id(first.value)
                                    ELSE Outcome(Null, "TypeError"),
                                    "")
    /\ stage' = "item_parsed"
    /\ UNCHANGED <<graph, parser, reasons_command, schema>>

\* the files: each identity field absent, null, empty or set
IdentityValues == { Null, Str(""), Str("item1") }

OptionalEntry(key, values) ==
    { DictOf(<<>>, <<>>) } \cup { DictOf(<<key>>, <<v>>) : v \in values }

DashboardsData ==
    { ListOf(<<>>) }
    \cup { ListOf(<<dashboard>>) : dashboard \in OptionalEntry("global_id", IdentityValues) }

Merge(a, b) == DictOf(a.keys \o b.keys, a.items \o b.items)

IdentityFiles ==
    { Merge(Merge(i, t), Merge(g, d)) :
        i \in OptionalEntry("id", IdentityValues),
        t \in OptionalEntry("trigger_id", IdentityValues),
        g \in OptionalEntry("global_id", IdentityValues),
        d \in OptionalEntry("dashboards_data", DashboardsData) }

InitIdentity ==
    /\ NoGraph
    /\ stage = "parse_item"
    /\ yml_data = NoYml
    /\ relationships = {}
    /\ json_data \in IdentityFiles
    /\ called = NoCall
    /\ console = <<>>
    /\ queried = <<>>
    /\ connection = "closed"
    /\ cli = NoCommand
    /\ constraints = {}
    /\ indexes = {}
    /\ db_nodes = {}
    /\ setup = NoSetup

NextIdentity ==
    \/ PlaybookParser_init
    \/ TriggerParser_init
    \/ XSIAMDashboardParser_init

SpecIdentity == InitIdentity /\ [][NextIdentity]_vars

ItemParsed == stage = "item_parsed"

\* C23: a parser that ends without error has yielded an item whose object id
\* can be read and is a non-empty string; a file without identity is refused
\* with MissingIdentityFieldError
C23_NoItemWithoutIdentity ==
    (ItemParsed /\ called.raised = "") =>
        /\ called.ret[1].raised = ""
        /\ called.ret[1].value.kind = "str"
        /\ called.ret[1].value.value # ""

(***************************************************************************)
(* Classifiers and mappers: ClassifierMapperParser (parsers) and the       *)
(* ClassifierMapper object (objects), on the json of one file.             *)
(***************************************************************************)
JsonHas(data, key) == \E i \in 1..Len(data.keys) : data.keys[i] = key

\* data.get(key, default)
JsonGetOr(data, key, default) == IF JsonHas(data, key) THEN JsonGet(data, key) ELSE default

EmptyDict == DictOf(<<>>, <<>>)

EmptyList == ListOf(<<>>)

\* the truth value of a json value
Truthy(v) ==
    \/ v.kind = "num"
    \/ v.kind = "str" /\ v.value # ""
    \/ v.kind = "list" /\ Len(v.items) > 0
    \/ v.kind = "dict" /\ Len(v.keys) > 0

\* field_to_cli_name on the field names of the files: lower case, letters
\* and digits only
field_to_cli_name(field_name) ==
    CASE field_name = "Alert ID" -> "alertid"
      [] field_name = "Severity Level" -> "severitylevel"
      [] OTHER -> field_name

FieldName(field_name) == field_name

get_filters_and_transformers_from_complex_value(complex_value) ==
    LET filters == JsonGetOr(complex_value, "filters", EmptyList)
        transformers == JsonGetOr(complex_value, "transformers", EmptyList)
    IN  { add_dependency_default("c1", JsonGet(f.items[1], "operator").value, "Script") :
            f \in { g \in Range(filters.items) : Truthy(g) } }
        \cup
        { add_dependency_default("c1", JsonGet(t, "operator").value, "Script") :
            t \in { u \in Range(transformers.items) : Truthy(u) } }

DefaultIncidentTypeDependency(data) ==
    IF Truthy(JsonGet(data, "defaultIncidentType"))
    THEN { add_dependency_default("c1", JsonGet(data, "defaultIncidentType").value,
                                  "IncidentType") }
    ELSE {}

connect_to_classifier_dependencies(data) ==
    LET keyTypeMap == JsonGetOr(data, "keyTypeMap", EmptyDict)
        complex == JsonGetOr(JsonGetOr(data, "transformer", EmptyDict), "complex", EmptyDict)
    IN  { add_dependency_default("c1", incident_type.value, "IncidentType") :
            incident_type \in Range(keyTypeMap.items) }
        \cup (IF Truthy(complex)
              THEN get_filters_and_transformers_from_complex_value(complex)
              ELSE {})

\* the name a field is linked by: converted by field_to_cli_name in the
\* object, taken as it is in the parser
CliName(to_cli_name, name) ==
    IF to_cli_name THEN field_to_cli_name(name) ELSE FieldName(name)

\* the dependencies of one entry of `mapping`; to_cli_name tells whether the
\* implementation converts the names of incident fields
MappingDependencies(mapper_type, incident_type, mapping_data, to_cli_name) ==
    LET internal_mapping == JsonGet(mapping_data, "internalMapping")
        OfOutgoing(fields_mapper) ==
            IF fields_mapper.kind # "dict" THEN {}
            ELSE IF Truthy(JsonGet(fields_mapper, "simple"))
            THEN { add_dependency_default(
                       "c1", CliName(to_cli_name, JsonGet(fields_mapper, "simple").value),
                       "IncidentField") }
            ELSE IF Truthy(JsonGet(JsonGetOr(fields_mapper, "complex", EmptyDict), "root"))
            THEN { add_dependency_default(
                       "c1",
                       CliName(to_cli_name, JsonGet(JsonGetOr(fields_mapper, "complex", EmptyDict),
                                       "root").value),
                       "IncidentField") }
            ELSE {}
        fields ==
            IF mapper_type = Str("mapping-outgoing")
            THEN UNION { OfOutgoing(internal_mapping.items[i]) :
                           i \in 1..Len(internal_mapping.items) }
            ELSE IF mapper_type = Str("mapping-incoming")
            THEN { add_dependency_default("c1", CliName(to_cli_name, internal_mapping.keys[i]),
                                          "IncidentField") :
                     i \in 1..Len(internal_mapping.keys) }
            ELSE {}
        scripts ==
            UNION { IF Truthy(JsonGetOr(internal_mapping.items[i], "complex", EmptyDict))
                    THEN get_filters_and_transformers_from_complex_value(
                             JsonGetOr(internal_mapping.items[i], "complex", EmptyDict))
                    ELSE {} :
                    i \in 1..Len(internal_mapping.items) }
    IN  { add_dependency_default("c1", incident_type, "IncidentType") }
        \cup fields \cup scripts

connect_to_mapper_dependencies(data, to_cli_name) ==
    LET mapping == JsonGetOr(data, "mapping", EmptyDict)
    IN  UNION { MappingDependencies(JsonGet(data, "type"), mapping.keys[i],
                                    mapping.items[i], to_cli_name) :
                  i \in 1..Len(mapping.keys) }

ClassifierMapperParser_content_type(data) ==
    IF JsonGet(data, "type") = Str("classification") THEN "Classifier" ELSE "Mapper"

ClassifierMapperParser_dependencies(data) ==
    DefaultIncidentTypeDependency(data)
    \cup (IF ClassifierMapperParser_content_type(data) = "Classifier"
          THEN connect_to_classifier_dependencies(data)
          ELSE connect_to_mapper_dependencies(data, FALSE))

\* __init__ of the object: the assignment of MAPPER follows the `if`, it is
\* not its else branch
ClassifierMapper_content_type(data) ==
    LET first == IF JsonGetOr(data, "type", Str("")) = Str("classification")
                 THEN "Classifier" ELSE "BaseContent"
        second == "Mapper"
    IN  second

ClassifierMapper_dependencies(data) ==
    DefaultIncidentTypeDependency(data)
    \cup (IF ClassifierMapper_content_type(data) = "Classifier"
          THEN connect_to_classifier_dependencies(data)
          ELSE connect_to_mapper_dependencies(data, TRUE))

ClassifierMapperParser_init ==
    /\ stage = "parse_classifier"
    /\ called' = [op |-> "ClassifierMapperParser", arg |-> <<>>,
                  ret |-> <<ClassifierMapperParser_content_type(json_data)>>,
                  raised |-> ""]
    /\ relationships' = ClassifierMapperParser_dependencies(json_data)
    /\ stage' = "classifier_parsed"
    /\ UNCHANGED <<graph, yml_data, layout, reasons_command, schema>>

ClassifierMapper_init ==
    /\ stage = "parse_classifier"
    /\ called' = [op |-> "ClassifierMapper", arg |-> <<>>,
                  ret |-> <<ClassifierMapper_content_type(json_data)>>,
                  raised |-> ""]
    /\ relationships' = ClassifierMapper_dependencies(json_data)
    /\ stage' = "classifier_parsed"
    /\ UNCHANGED <<graph, yml_data, layout, reasons_command, schema>>

\* the files
Operator(name) == DictOf(<<"operator">>, <<Str(name)>>)

ComplexValues ==
    { DictOf(<<"root", "filters", "transformers">>,
             <<Str("Severity Level"), EmptyList, ListOf(<<Operator("toUpperCase")>>)>>),
      DictOf(<<"root", "filters", "transformers">>,
             <<Str("Alert ID"), ListOf(<<ListOf(<<Operator("isEqualString")>>)>>),
               EmptyList>>) }

InternalMappings ==
    { DictOf(<<"Alert ID">>, <<DictOf(<<"simple">>, <<Str("Alert ID")>>)>>) }
    \cup { DictOf(<<"severity">>,
                  <<DictOf(<<"simple", "complex">>, <<Str(""), complex>>)>>) :
             complex \in ComplexValues }

ClassifierEntries ==
    [type : OptionalEntry("type", { Str("classification"), Str("mapping-incoming"),
                                    Str("mapping-outgoing") }),
     defaultIncidentType : OptionalEntry("defaultIncidentType",
                                          { Str(""), Str("Phishing") }),
     keyTypeMap : OptionalEntry("keyTypeMap",
                                { EmptyDict,
                                  DictOf(<<"k1">>, <<Str("Phishing")>>),
                                  DictOf(<<"k1", "k2">>, <<Str("Phishing"), Str("Malware")>>) }),
     transformer : OptionalEntry("transformer",
                                 { DictOf(<<"complex">>, <<complex>>) :
                                     complex \in ComplexValues }),
     mapping : OptionalEntry("mapping",
                             { DictOf(<<"Phishing">>,
                                      <<DictOf(<<"internalMapping">>, <<internal>>)>>) :
                                 internal \in InternalMappings })]

ClassifierFiles ==
    { Merge(Merge(Merge(e.type, e.defaultIncidentType), Merge(e.keyTypeMap, e.transformer)),
            e.mapping) : e \in ClassifierEntries }

InitClassifier ==
    /\ NoGraph
    /\ stage = "parse_classifier"
    /\ yml_data = NoYml
    /\ relationships = {}
    /\ json_data \in ClassifierFiles
    /\ called = NoCall
    /\ console = <<>>
    /\ queried = <<>>
    /\ connection = "closed"
    /\ cli = NoCommand
    /\ constraints = {}
    /\ indexes = {}
    /\ db_nodes = {}
    /\ setup = NoSetup

NextClassifier ==
    \/ ClassifierMapperParser_init
    \/ ClassifierMapper_init

SpecClassifier == InitClassifier /\ [][NextClassifier]_vars

ClassifierParsed == stage = "classifier_parsed"

\* C24: both implementations type a file of type 'classification' as
\* Classifier, with an IncidentType dependency for each value of keyTypeMap,
\* and any other file as Mapper; they give one file the same type
C24_ImplementationsAgree ==
    ClassifierParsed =>
        /\ ClassifierMapperParser_content_type(json_data) =
               ClassifierMapper_content_type(json_data)
        /\ IF JsonGet(json_data, "type") = Str("classification")
           THEN /\ called.ret = <<"Classifier">>
                /\ \A incident_type \in Range(JsonGetOr(json_data, "keyTypeMap",
                                                        EmptyDict).items) :
                       add_dependency_default("c1", incident_type.value, "IncidentType")
                           \in relationships
           ELSE called.ret = <<"Mapper">>

\* C25: the graph holds at most one DEPENDS_ON edge for each ordered pair of
\* packs, whatever the number of USES edges between their items and of runs
\* of the collapse
C25_OneEdgePerPackPair ==
    \A d, e \in depends_on : (d.src = e.src /\ d.dst = e.dst) => d = e

\* the collapse has run twice on a graph where two items of PackA use an
\* item of PackB, one mandatorily and one optionally
C25_Witness ==
    /\ Collapsed
    /\ runs >= 2
    /\ \E r, q \in UsesBetween("PackA", "PackB") : r.mandatorily /\ ~q.mandatorily
    /\ \E d \in depends_on : d.src = "PackA" /\ d.dst = "PackB"

(***************************************************************************)
(* create_pack_dependencies ended before its last query and run again.     *)
(* The queries that completed keep their effect on the store; called holds *)
(* the call and the marketplaces of the graph it was first given.          *)
(***************************************************************************)
create_pack_dependencies_interrupted ==
    /\ stage = "built"
    /\ pc \in 1..NumMarketplaces
    /\ called.op = "create_pack_dependencies"
    /\ called.raised = ""
    /\ called' = [called EXCEPT !.raised = "Interrupted"]
    /\ pc' = 0
    /\ UNCHANGED <<marketplaces, uses, depends_on, runs, prev, last, written, stage,
                   parser, layout, reasons_command, schema>>

InitRerun ==
    /\ marketplaces \in BuiltMarketplaces
    /\ uses \in BuiltUses
    /\ depends_on = {}
    /\ pc = 0
    /\ runs = 0
    /\ prev = marketplaces
    /\ last = [op |-> "build", marketplace |-> ""]
    /\ written = {}
    /\ stage = "built"
    /\ yml_data = NoYml
    /\ relationships = {}
    /\ json_data = NoJson
    /\ called = [op |-> "create_pack_dependencies", arg |-> <<marketplaces>>,
                 ret |-> <<>>, raised |-> ""]
    /\ console = <<>>
    /\ queried = <<>>
    /\ connection = "closed"
    /\ cli = NoCommand
    /\ constraints = {}
    /\ indexes = {}
    /\ db_nodes = {}
    /\ setup = NoSetup

NextRerun ==
    \/ update_marketplaces_property
    \/ create_depends_on_relationships
    \/ create_pack_dependencies_interrupted

SpecRerun == InitRerun /\ [][NextRerun]_vars

\* fix_marketplaces_properties, uninterrupted: one update_marketplaces_property
\* per marketplace, in order
fix_marketplaces_properties(mps, U) ==
    LET F[i \in 0..NumMarketplaces] ==
            IF i = 0 THEN mps
            ELSE MarketplacesWithout(F[i - 1], U, MarketplaceVersions[i])
    IN  F[NumMarketplaces]

\* the pairs and marketplaces of the DEPENDS_ON edges of a set of edges
PairsAndMarketplaces(edges) == { <<d.src, d.dst, d.marketplaces>> : d \in edges }

\* the pairs and marketplaces the collapse query writes on a graph
CollapseOf(mps, U) ==
    { <<row[1], row[5], common_marketplaces(mps, row[1], row[5])>> :
        row \in DependsOnRows(mps, U) }

InterruptedThenCompleted ==
    /\ Collapsed
    /\ runs = 1
    /\ called.op = "create_pack_dependencies"
    /\ called.raised = "Interrupted"

MarketplaceOrders ==
    { order \in [1..NumMarketplaces -> AllMarketplaces] : Range(order) = AllMarketplaces }

fix_marketplaces_properties_in(mps, U, order) ==
    LET F[i \in 0..Len(order)] ==
            IF i = 0 THEN mps ELSE MarketplacesWithout(F[i - 1], U, order[i])
    IN  F[Len(order)]

fix_marketplaces_properties_ordered ==
    /\ stage = "built"
    /\ \E order \in MarketplaceOrders :
         /\ marketplaces' = fix_marketplaces_properties_in(marketplaces, uses, order)
         /\ called' = [op |-> "fix_marketplaces_properties", arg |-> order,
                       ret |-> <<>>, raised |-> ""]
    /\ prev' = marketplaces
    /\ stage' = "marketplaces_fixed"
    /\ UNCHANGED <<uses, depends_on, pc, runs, last, written, parser, layout,
                   reasons_command, schema>>

InitOrder == Init

NextOrder == fix_marketplaces_properties_ordered

SpecOrder == InitOrder /\ [][NextOrder]_vars

MarketplacesFixed == stage = "marketplaces_fixed"

\* C27: the marketplaces after update_marketplaces_property has run for the
\* marketplaces in one order are those it gives in any other order
C27_OrderIndependent ==
    MarketplacesFixed =>
        \A order \in MarketplaceOrders :
            marketplaces = fix_marketplaces_properties_in(prev, uses, order)

\* the loop ran marketplacev2 first on a graph where each of the two queries
\* removed its marketplace from a node
C27_Witness ==
    /\ MarketplacesFixed
    /\ called.arg = <<"marketplacev2", "xsoar">>
    /\ \E n \in Nodes : "xsoar" \in prev[n] /\ "xsoar" \notin marketplaces[n]
    /\ \E n \in Nodes : "marketplacev2" \in prev[n] /\ "marketplacev2" \notin marketplaces[n]

(***************************************************************************)
(* C28: update_marketplaces_property(M) adds no marketplace to any node,   *)
(* removes no marketplace other than M, leaves the marketplaces of every   *)
(* node without an outgoing mandatory USES edge as they were, and changes  *)
(* no USES and no DEPENDS_ON edge; over every step each node's             *)
(* marketplaces only shrink.                                               *)
(***************************************************************************)
C28_RepairOnlyNarrows ==
    [][ /\ \A n \in Nodes : marketplaces'[n] \subseteq marketplaces[n]
        /\ pc' = pc + 1 =>
             /\ \A n \in Nodes :
                  /\ marketplaces[n] \ marketplaces'[n] \subseteq {last'.marketplace}
                  /\ (~\E r \in uses : r.src = n /\ r.mandatorily = TRUE)
                        => marketplaces'[n] = marketplaces[n]
             /\ uses' = uses
             /\ depends_on' = depends_on ]_vars

\* one update removed M from an item and left every marketplace on an item
\* whose only USES edge is optional and leads to a dependency without M
C28_Witness ==
    /\ Repaired
    /\ \E n \in Nodes : prev[n] \ marketplaces[n] = {last.marketplace}
    /\ \E r \in uses :
         /\ r.mandatorily = FALSE
         /\ ~\E q \in uses : q.src = r.src /\ q.mandatorily = TRUE
         /\ last.marketplace \in prev[r.src]
         /\ marketplaces[r.src] = prev[r.src]
         /\ Unavailable(prev, r.dst, last.marketplace)

(***************************************************************************)
(* update_content_graph (content_graph_commands.py): ContentGraphBuilder   *)
(* imports the graph of the previous build, DEPENDS_ON edges included,     *)
(* parses the packs to update again and merges the result.  The newly      *)
(* parsed pack may declare fewer marketplaces, and its items may have lost *)
(* USES relationships; the rest of the imported graph stays as it was.     *)
(* create_pack_dependencies then runs on the updated graph.                *)
(***************************************************************************)
UpdatablePacks == { pack \in PackNodes : object_id(pack) \notin IGNORED_PACKS_IN_DEPENDENCY_CALC }

UsesOfPack(U, pack) == { r \in U : <<r.src, pack>> \in IN_PACK }

update_content_graph ==
    /\ stage = "built"
    /\ pc = 0
    /\ runs >= 1
    /\ runs < MaxRuns
    /\ called = NoCall
    /\ \E pack \in UpdatablePacks :
         /\ \E declared \in (SUBSET marketplaces[pack]) \ {{}} :
              marketplaces' = [marketplaces EXCEPT ![pack] = declared]
         /\ \E parsed \in SUBSET UsesOfPack(uses, pack) :
              uses' = (uses \ UsesOfPack(uses, pack)) \cup parsed
         /\ called' = [op |-> "update_content_graph", arg |-> <<pack>>,
                       ret |-> <<>>, raised |-> ""]
    /\ prev' = marketplaces
    /\ last' = [op |-> "update_content_graph", marketplace |-> ""]
    /\ UNCHANGED <<depends_on, pc, runs, written, stage, parser, layout,
                   reasons_command, schema>>

\* a repository whose every node is valid for every marketplace
InitUpdate ==
    /\ Init
    /\ \A n \in Nodes : marketplaces[n] = AllMarketplaces

NextUpdate ==
    \/ update_marketplaces_property
    \/ create_depends_on_relationships
    \/ update_content_graph

SpecUpdate == InitUpdate /\ [][NextUpdate]_vars

\* the USES rows of the current graph justify the edge and give it its
\* marketplaces
Justified(dep) ==
    /\ \E row \in DependsOnRows(marketplaces, uses) :
         MergedEndpoints(row) = <<dep.src, dep.dst>>
    /\ dep.marketplaces = common_marketplaces(marketplaces, dep.src, dep.dst)

\* C29: after create_pack_dependencies has run on an updated graph, every
\* DEPENDS_ON edge of the graph is justified by the graph as it is: a
\* qualifying USES edge between the two packs exists, the packs share a
\* marketplace and the edge carries their common marketplaces
C29_NoStaleDependsOn ==
    (last.op = "create_depends_on_relationships" /\ called.op = "update_content_graph")
        => \A dep \in depends_on : Justified(dep)

(***************************************************************************)
(* The incident-to-alert text fixes: change_incident_to_alert              *)
(* (prepare_content/preparers/replace_incident_alert.py) and               *)
(* fix_widget_incident_to_alert (content_graph/objects/layout.py), applied *)
(* to json_data.                                                           *)
(***************************************************************************)
MaxWidgetDepth == 1     \* widgets nested inside the top widget

\* datum[key] = value, for a key the dict has
JsonSet(datum, key, value) ==
    [datum EXCEPT !.items = [i \in 1..Len(datum.items) |->
                                IF datum.keys[i] = key THEN value ELSE datum.items[i]]]

\* name.replace("Incidents", "Alerts") on the names of the analysis
replace_Incidents_Alerts(name) ==
    CASE name = "Child Incidents" -> "Child Alerts"
      [] name = "Linked Incidents" -> "Linked Alerts"
      [] name = "Related Incidents" -> "Related Alerts"
      [] OTHER -> name

is_replaceable_by_type(type_) ==
    type_.kind = "str" /\ type_.value \in {"childInv", "relatedIncidents", "linkedIncidents"}

is_replaceable_name(name) ==
    name.kind = "str" /\ name.value \in {"Child Incidents", "Linked Incidents", "Related Incidents"}

is_replaceable_in_layoutscontainer(datum_) ==
    {"i", "x", "y", "h", "w"} \subseteq Range(datum_.keys)

\* fix_recursively of change_incident_to_alert
RECURSIVE change_incident_fix_recursively(_)
change_incident_fix_recursively(datum) ==
    IF datum.kind = "dict"
    THEN IF JsonGet(datum, "name_x2") # Null
         THEN datum
         ELSE IF /\ is_replaceable_name(JsonGetOr(datum, "name", Str("")))
                 /\ \/ is_replaceable_by_type(JsonGet(datum, "type"))
                    \/ is_replaceable_in_layoutscontainer(datum)
         THEN JsonSet(datum, "name", Str(replace_Incidents_Alerts(JsonGet(datum, "name").value)))
         ELSE [datum EXCEPT !.items = [i \in 1..Len(datum.items) |->
                                          change_incident_fix_recursively(datum.items[i])]]
    ELSE IF datum.kind = "list"
    THEN [datum EXCEPT !.items = [i \in 1..Len(datum.items) |->
                                     change_incident_fix_recursively(datum.items[i])]]
    ELSE datum

\* fix_recursively of fix_widget_incident_to_alert
RECURSIVE fix_widget_fix_recursively(_)
fix_widget_fix_recursively(datum) ==
    IF datum.kind = "dict"
    THEN IF /\ JsonGet(datum, "id") = Str("relatedIncidents")
            /\ JsonGet(datum, "name") = Str("Related Incidents")
            /\ JsonGet(datum, "name_x2") = Null
         THEN JsonSet(datum, "name", Str("Related Alerts"))
         ELSE [datum EXCEPT !.items = [i \in 1..Len(datum.items) |->
                                          fix_widget_fix_recursively(datum.items[i])]]
    ELSE IF datum.kind = "list"
    THEN [datum EXCEPT !.items = [i \in 1..Len(datum.items) |->
                                     fix_widget_fix_recursively(datum.items[i])]]
    ELSE datum

\* the call ends in [raised, result]
change_incident_to_alert(data) ==
    IF data.kind # "dict" THEN [raised |-> "TypeError", result |-> data]
    ELSE [raised |-> "", result |-> change_incident_fix_recursively(data)]

fix_widget_incident_to_alert(data) ==
    IF data.kind # "dict" THEN [raised |-> "TypeError", result |-> data]
    ELSE [raised |-> "", result |-> fix_widget_fix_recursively(data)]

\* a fix is applied to json_data, and then once more to its result
Fixing == stage \in {"fix", "fixed"}

FixedStage == IF stage = "fix" THEN "fixed" ELSE "fixed_twice"

change_incident_to_alert_call ==
    /\ Fixing
    /\ called.op \in {"", "change_incident_to_alert"}
    /\ LET outcome == change_incident_to_alert(json_data)
       IN  /\ json_data' = outcome.result
           /\ called' = [op |-> "change_incident_to_alert", arg |-> <<json_data>>,
                         ret |-> <<>>, raised |-> outcome.raised]
    /\ stage' = FixedStage
    /\ UNCHANGED <<graph, parser, reasons_command, schema>>

fix_widget_incident_to_alert_call ==
    /\ Fixing
    /\ called.op \in {"", "fix_widget_incident_to_alert"}
    /\ LET outcome == fix_widget_incident_to_alert(json_data)
       IN  /\ json_data' = outcome.result
           /\ called' = [op |-> "fix_widget_incident_to_alert", arg |-> <<json_data>>,
                         ret |-> <<>>, raised |-> outcome.raised]
    /\ stage' = FixedStage
    /\ UNCHANGED <<graph, parser, reasons_command, schema>>

(***************************************************************************)
(* The dicts of the analysis: a widget with or without a name, with a      *)
(* type, an id or the keys of a layoutscontainer section, with or without  *)
(* name_x2, and with or without data: a widget or a list of one widget,    *)
(* up to MaxWidgetDepth deep.                                              *)
(***************************************************************************)
WidgetNames ==
    { EmptyDict } \cup
    { DictOf(<<"name">>, <<Str(name)>>) : name \in {"Related Incidents", "Child Incidents", "Other"} }

WidgetMarkers ==
    { EmptyDict,
      DictOf(<<"type">>, <<Str("relatedIncidents")>>),
      DictOf(<<"id">>, <<Str("relatedIncidents")>>),
      DictOf(<<"i", "x", "y", "h", "w">>, <<Num, Num, Num, Num, Num>>) }

WidgetNamesX2 ==
    { EmptyDict, DictOf(<<"name_x2">>, <<Null>>), DictOf(<<"name_x2">>, <<Str("Alerts")>>) }

RECURSIVE Widgets(_)
Widgets(depth) ==
    LET beneath ==
            IF depth = 0 THEN { EmptyDict }
            ELSE { EmptyDict }
                 \cup { DictOf(<<"data">>, <<w>>) : w \in Widgets(depth - 1) }
                 \cup { DictOf(<<"data">>, <<ListOf(<<w>>)>>) : w \in Widgets(depth - 1) }
    IN  { Merge(Merge(name, marker), Merge(x2, data)) :
            name \in WidgetNames, marker \in WidgetMarkers,
            x2 \in WidgetNamesX2, data \in beneath }

InitAlert ==
    /\ NoGraph
    /\ stage = "fix"
    /\ yml_data = NoYml
    /\ relationships = {}
    /\ json_data \in Widgets(MaxWidgetDepth)
    /\ called = NoCall
    /\ console = <<>>
    /\ queried = <<>>
    /\ connection = "closed"
    /\ cli = NoCommand
    /\ constraints = {}
    /\ indexes = {}
    /\ db_nodes = {}
    /\ setup = NoSetup

NextAlert ==
    \/ change_incident_to_alert_call
    \/ fix_widget_incident_to_alert_call

SpecAlert == InitAlert /\ [][NextAlert]_vars

\* C30: a text fix applied to its own result changes nothing, and
\* a dict with a non-null name_x2 comes back from change_incident_to_alert
\* as it went in, with everything beneath it
C30_TextFixesIdempotent ==
    /\ stage = "fixed_twice" => json_data = called.arg[1]
    /\ (/\ stage = "fixed"
        /\ called.op = "change_incident_to_alert"
        /\ JsonGet(called.arg[1], "name_x2") # Null) => json_data = called.arg[1]

====
